---- MODULE Spec2Model ----
(***************************************************************************)
(* Storage core of the node: the package file (archives/package.rs), the   *)
(* archive manager (archives/archive_manager.rs), the dynamic BOC store    *)
(* with its garbage collector (dynamic_boc_db.rs, shardstate_db.rs,        *)
(* types/storage_cell.rs) and the block index (block_index_db.rs).  Each   *)
(* subsystem has its own variables and its own specification; a            *)
(* specification leaves the other subsystems' variables unchanged.         *)
(***************************************************************************)
EXTENDS Integers, Sequences, FiniteSets, TLC

VARIABLES
    \* ---- package file (archives/package.rs)
    file,          \* the bytes of the package file on disk, header included
    size,          \* Package::size, the AtomicU64 (header included)
    write_mutex,   \* Package::write_mutex: "free" or the appender holding it
    apc,           \* appender -> position inside append_entry
    aentry,        \* appender -> the entry being appended
    aoffset,       \* appender -> entry_offset read under the lock
    offsets,       \* what the after_append continuations have recorded
    observed,      \* the last size() a concurrent observer has read
    \* ---- archive manager (archives/archive_manager.rs)
    unapplied,     \* entry id -> bytes of the loose file, or NoFile
    flags,         \* block -> BlockMeta::flags
    moving_to_archive_started,  \* block -> BlockHandle::moving_to_archive_started
    file_maps,     \* ids of the packages that have a FileDescription
    slices,        \* entries of the archive slices: [pkg, entry, data]
    mpc,           \* mover -> position inside move_to_archive
    mloc,          \* mover -> locals of move_to_archive
    gpc,           \* getter -> position inside get_file
    gloc,          \* getter -> locals and result of get_file
    history,       \* what has happened: on_success calls, copies, unlinks
    \* ---- dynamic BOC store and GC (dynamic_boc_db.rs, shardstate_db.rs)
    cell_db,       \* CellDb: the ids of the cell records stored
    shardstate_db, \* ShardStateDb::shardstate_db: state -> root cell id, or NoCell
    cells,         \* DynamicBocDb::cells: cell id -> the instance its Weak refers to, or 0
    inst,          \* the StorageCell instances in memory
    held,          \* thread -> the instances it holds an Arc of
    tpc,           \* thread -> position inside load_cell / reference
    tloc,          \* thread -> locals of load_cell / reference
    spc,           \* position of the caller of ShardStateDb::put
    sloc,          \* locals of ShardStateDb::put / save_as_dynamic_boc
    gc,            \* position and locals of GC::collect
    gc_generation, \* the counter behind new_gc_generation()
    saved,         \* history: the roots saved with no GC commit since the save began
    \* ---- block index (block_index_db.rs)
    lt_desc,       \* LtDescDb: the descriptor of the shard, <<>> when there is none
    lt_db,         \* LtDb: index -> entry of the shard
    lt_shard_db,   \* LtShardDb: the pairs <<shard_index, shard>>
    total_shards,  \* StatusDb: LtDbStatus.total_shards
    ares,          \* the last add_handle: its block and its result
    qres,          \* the last get_block since then: its query and its answer
    \* ---- block handle (types/block_handle.rs, types/block_meta.rs)
    hflags,        \* BlockMeta::flags of one block handle, the AtomicU32
    hpc,           \* setter -> position inside its set_* call
    hloc,          \* setter -> the flag it sets and the value set_* returned
    \* ---- opening a package (archives/package.rs)
    disk,          \* the file at the package's path: does it exist, and its bytes
    opened,        \* the last Package::open: its arguments and its outcome
    \* ---- one archive slice (archives/package_offsets_db.rs, archive_slice.rs)
    hasher,        \* entry id -> the 8 bytes DefaultHasher gives PackageOffsetKey
    offsets_db,    \* PackageOffsetsDb: PackageOffsetKey -> offset, or NoOffset
    slice_pkg,     \* the bytes of the slice's package file, header included
    added,         \* history: the entry ids add_file has been called with
    last_add,      \* history: the last add_file call and whether it was a repeat
    \* ---- block meta on disk (types/block_meta.rs)
    bmeta,         \* the BlockMeta in memory
    bbytes,        \* what serialize has written, <<>> before
    bback,         \* what deserialize has returned from those bytes
    \* ---- Package::truncate (archives/package.rs)
    trunc,         \* the caller of truncate: its position and its new_size
    \* ---- the block handle DB over the block index (block_handle_db.rs)
    handle_db,     \* BlockHandleDb::db: the keys it stores a BlockMeta under
    metas,         \* the BlockMeta instances in memory
    ppc,           \* putter -> its position in BlockHandleDb::put / add_handle
    ploc,          \* putter -> the locals of the call
    desc_lock,     \* the write lock of lt_desc_db: "free" or the putter holding it
    lt_desc_db,    \* shard -> its LtDesc, or NoDesc
    lt_entries,    \* LtDb: shard -> the entries by index
    shard_list,    \* LtShardDb: shard index -> shard
    status,        \* StatusDb: total_shards of LtDbStatus
    \* ---- one call of get_block, step by step (block_index_db.rs)
    get_in,        \* what the call finds: the descriptors, the missing entries, the query
    get_st         \* the locals of the call and its position

pkgVars == <<file, size, write_mutex, apc, aentry, aoffset, offsets, observed>>

arcVars == <<unapplied, flags, moving_to_archive_started, file_maps, slices,
             mpc, mloc, gpc, gloc, history>>

bocVars == <<cell_db, shardstate_db, cells, inst, held, tpc, tloc, spc, sloc, gc,
             gc_generation, saved>>

idxVars == <<lt_desc, lt_db, lt_shard_db, total_shards, ares, qres>>

hdlVars == <<hflags, hpc, hloc>>

\* the variables of the smaller components
opnVars == <<disk, opened>>

slcVars == <<hasher, offsets_db, slice_pkg, added, last_add>>

metVars == <<bmeta, bbytes, bback>>

trnVars == <<trunc>>

hdbVars == <<handle_db, metas, ppc, ploc, desc_lock, lt_desc_db, lt_entries,
             shard_list, status>>

\* the variables of the callers added to the components above
getVars == <<get_in, get_st>>

extVars == <<trnVars, hdbVars, getVars>>
\* what the actions of one of them leave alone among the others
extButTrn == <<hdbVars, getVars>>
extButHdb == <<trnVars, getVars>>
extButGet == <<trnVars, hdbVars>>

auxVars == <<hdlVars, opnVars, slcVars, metVars, extVars>>

vars == <<pkgVars, arcVars, bocVars, idxVars, auxVars>>

(***************************************************************************)
(*                              PACKAGE FILE                               *)
(***************************************************************************)

\* ---- bounds of the package model
MaxNameLen == 1
MaxDataLen == 1

NameBytes == {97}
DataBytes == {1, 2}
Appenders == {"a1", "a2"}

PKG_HEADER_SIZE == 4
PKG_ENTRY_HEADER_SIZE == 8
\* 0xAE8F_DD01 as written by to_le_bytes()
PKG_HEADER_MAGIC == <<1, 221, 143, 174>>

SeqsUpTo(S, n) == UNION {[1..k -> S] : k \in 0..n}

PackageEntries ==
    [filename : SeqsUpTo(NameBytes, MaxNameLen), data : SeqsUpTo(DataBytes, MaxDataLen)]

NoEntry == [filename |-> <<>>, data |-> <<>>]

\* u16::to_le_bytes / u32::to_le_bytes
LE16(n) == <<n % 256, (n \div 256) % 256>>
LE32(n) == <<n % 256, (n \div 256) % 256, (n \div 65536) % 256, (n \div 16777216) % 256>>

FromLE16(b, p) == b[p + 1] + 256 * b[p + 2]
FromLE32(b, p) == b[p + 1] + 256 * b[p + 2] + 65536 * b[p + 3] + 16777216 * b[p + 4]

\* PackageEntry::write_to, in the two writes the model lets fail between:
\* the 8-byte entry header, then filename and data.
EntryHeader(e) == LE16(Len(e.filename)) \o LE32(Len(e.data)) \o <<0, 0>>
EntryBody(e) == e.filename \o e.data
EntrySize(e) == PKG_ENTRY_HEADER_SIZE + Len(e.filename) + Len(e.data)

\* PackageEntry::read_from at byte position p (0-based) of the bytes b
ReadFrom(b, p) ==
    IF Len(b) < p + PKG_ENTRY_HEADER_SIZE
    THEN [ok |-> FALSE, entry |-> NoEntry]
    ELSE LET flen == FromLE16(b, p)
             dlen == FromLE32(b, p + 2)
             q == p + PKG_ENTRY_HEADER_SIZE
         IN IF Len(b) < q + flen + dlen
            THEN [ok |-> FALSE, entry |-> NoEntry]
            ELSE [ok |-> TRUE,
                  entry |-> [filename |-> SubSeq(b, q + 1, q + flen),
                             data |-> SubSeq(b, q + flen + 1, q + flen + dlen)]]

\* Package::size()
Size == size - PKG_HEADER_SIZE

\* Package::read_entry(offset)
ReadEntry(offset) ==
    IF Size <= offset + PKG_ENTRY_HEADER_SIZE
    THEN [ok |-> FALSE, entry |-> NoEntry]
    ELSE ReadFrom(file, PKG_HEADER_SIZE + offset)

\* what the index knows: the greatest new_size a continuation has recorded
IndexedSize ==
    IF offsets = {} THEN 0
    ELSE CHOOSE n \in {r.new_size : r \in offsets} : \A r \in offsets : r.new_size <= n

\* Package::open(path, false, true) on a fresh file: the magic is written
InitPkg ==
    /\ file = PKG_HEADER_MAGIC
    /\ size = PKG_HEADER_SIZE
    /\ write_mutex = "free"
    /\ apc = [a \in Appenders |-> "idle"]
    /\ aentry = [a \in Appenders |-> NoEntry]
    /\ aoffset = [a \in Appenders |-> 0]
    /\ offsets = {}
    /\ observed = [size |-> 0, indexed |-> 0]

\* append_entry is called: the assert on the filename length (the one on the
\* data length, u32::max_value(), is beyond every length modelled), open_file
AppendCall(a) ==
    /\ apc[a] = "idle"
    /\ \E e \in PackageEntries :
        /\ Len(e.filename) <= 65535
        /\ aentry' = [aentry EXCEPT ![a] = e]
    /\ apc' = [apc EXCEPT ![a] = "lock"]
    /\ UNCHANGED <<file, size, write_mutex, aoffset, offsets, observed>>
    /\ UNCHANGED <<arcVars, bocVars, idxVars, auxVars>>

\* an append that does not wait for write_mutex
AppendLockFree(a) ==
    /\ apc[a] = "lock"
    /\ write_mutex' = a
    /\ aoffset' = [aoffset EXCEPT ![a] = Size]
    /\ apc' = [apc EXCEPT ![a] = "header"]
    /\ UNCHANGED <<file, size, aentry, offsets, observed>>
    /\ UNCHANGED <<arcVars, bocVars, idxVars, auxVars>>

\* write_mutex.lock(), seek(End), entry_offset = self.size()
AppendLock(a) ==
    /\ apc[a] = "lock"
    /\ write_mutex = "free"
    /\ write_mutex' = a
    /\ aoffset' = [aoffset EXCEPT ![a] = Size]
    /\ apc' = [apc EXCEPT ![a] = "header"]
    /\ UNCHANGED <<file, size, aentry, offsets, observed>>
    /\ UNCHANGED <<arcVars, bocVars, idxVars, auxVars>>

\* a fetch_add placed before the write has finished
AppendWriteHeaderSizeFirst(a) ==
    /\ apc[a] = "header"
    /\ size' = size + EntrySize(aentry[a])
    /\ file' = file \o EntryHeader(aentry[a])
    /\ apc' = [apc EXCEPT ![a] = "body"]
    /\ UNCHANGED <<write_mutex, aentry, aoffset, offsets, observed>>
    /\ UNCHANGED <<arcVars, bocVars, idxVars, auxVars>>

\* entry.write_to: the entry header reaches the file
AppendWriteHeader(a) ==
    /\ apc[a] = "header"
    /\ file' = file \o EntryHeader(aentry[a])
    /\ apc' = [apc EXCEPT ![a] = "body"]
    /\ UNCHANGED <<size, write_mutex, aentry, aoffset, offsets, observed>>
    /\ UNCHANGED <<arcVars, bocVars, idxVars, auxVars>>

\* entry.write_to: filename and data reach the file, write_to returns
AppendWriteBody(a) ==
    /\ apc[a] = "body"
    /\ file' = file \o EntryBody(aentry[a])
    /\ apc' = [apc EXCEPT ![a] = "add"]
    /\ UNCHANGED <<size, write_mutex, aentry, aoffset, offsets, observed>>
    /\ UNCHANGED <<arcVars, bocVars, idxVars, auxVars>>

\* entry.write_to fails after the header: `?` returns, the guard is dropped
AppendWriteFail(a) ==
    /\ apc[a] = "body"
    /\ write_mutex' = "free"
    /\ apc' = [apc EXCEPT ![a] = "failed"]
    /\ UNCHANGED <<file, size, aentry, aoffset, offsets, observed>>
    /\ UNCHANGED <<arcVars, bocVars, idxVars, auxVars>>

\* self.size.fetch_add(entry_size)
AppendAddSize(a) ==
    /\ apc[a] = "add"
    /\ size' = size + EntrySize(aentry[a])
    /\ apc' = [apc EXCEPT ![a] = "after"]
    /\ UNCHANGED <<file, write_mutex, aentry, aoffset, offsets, observed>>
    /\ UNCHANGED <<arcVars, bocVars, idxVars, auxVars>>

\* after_append(entry_offset, entry_offset + entry_size), then the guard is dropped
AppendAfter(a) ==
    /\ apc[a] = "after"
    /\ offsets' = offsets \cup {[entry |-> aentry[a], offset |-> aoffset[a],
                                 new_size |-> aoffset[a] + EntrySize(aentry[a])]}
    /\ write_mutex' = "free"
    /\ apc' = [apc EXCEPT ![a] = "done"]
    /\ UNCHANGED <<file, size, aentry, aoffset, observed>>
    /\ UNCHANGED <<arcVars, bocVars, idxVars, auxVars>>

\* a concurrent caller of Package::size(), which takes no lock
ObserveSize ==
    /\ observed' = [size |-> Size, indexed |-> IndexedSize]
    /\ UNCHANGED <<file, size, write_mutex, apc, aentry, aoffset, offsets>>
    /\ UNCHANGED <<arcVars, bocVars, idxVars, auxVars>>

NextPkg ==
    \/ \E a \in Appenders : AppendCall(a)
    \/ \E a \in Appenders : AppendLock(a)
    \/ \E a \in Appenders : AppendWriteHeader(a)
    \/ \E a \in Appenders : AppendWriteBody(a)
    \/ \E a \in Appenders : AppendWriteFail(a)
    \/ \E a \in Appenders : AppendAddSize(a)
    \/ \E a \in Appenders : AppendAfter(a)
    \/ ObserveSize

(***************************************************************************)
(*                             ARCHIVE MANAGER                             *)
(***************************************************************************)

Blocks == {"b1", "b2"}
Movers == {"m1", "m2"}
Getters == {"g1"}
Kinds == {"proof", "prooflink", "block"}
\* b1 is a shard block (it may have a proof link), b2 a masterchain block
\* (it may be a key block)
KindsOf(b) == IF b = "b1" THEN Kinds ELSE {"proof", "block"}

\* PackageEntryId::Proof(block_id), ::ProofLink(block_id), ::Block(block_id)
EntryIds == [kind : Kinds, block : Blocks]
EntryId(k, b) == [kind |-> k, block |-> b]

NoFile == "nofile"
\* the bytes the node stages for an entry
Payload(e) == <<e.kind, e.block>>

\* get_mc_seq_no: block_id.seq_no() of the masterchain block b2,
\* masterchain_ref_seq_no of the shard block b1
McSeqNo(b) == IF b = "b1" THEN 2 ELSE 1

ARCHIVE_SIZE == 20000

FLAG_DATA == 1
FLAG_PROOF == 2
FLAG_PROOF_LINK == 4
FLAG_KEY_BLOCK == 2048
FLAG_MOVED_TO_ARCHIVE == 8192

\* flags & FLAG != 0, for a one-bit FLAG
HasFlag(f, bit) == (f \div bit) % 2 = 1
\* fetch_or(FLAG)
OrFlag(f, bit) == IF HasFlag(f, bit) THEN f ELSE f + bit

is_key_block(b) == HasFlag(flags[b], FLAG_KEY_BLOCK)
is_data_inited(b) == HasFlag(flags[b], FLAG_DATA)
is_proof_inited(b) == HasFlag(flags[b], FLAG_PROOF)
is_prooflink_inited(b) == HasFlag(flags[b], FLAG_PROOF_LINK)
is_moved_to_archive(b) == HasFlag(flags[b], FLAG_MOVED_TO_ARCHIVE)

StoredFlag(k) ==
    IF k = "proof" THEN FLAG_PROOF ELSE IF k = "prooflink" THEN FLAG_PROOF_LINK ELSE FLAG_DATA

NoPackage == -1

\* FileMap::get_closest(seq_no): the existing package with the greatest id <= seq_no
GetClosest(seq_no) ==
    LET below == {p \in file_maps : p <= seq_no}
    IN IF below = {} THEN NoPackage
       ELSE CHOOSE p \in below : \A q \in below : q <= p

\* ArchiveManager::get_package_id_force(mc_seq_no, is_key)
GetPackageIdForce(mc_seq_no, is_key) ==
    IF is_key THEN mc_seq_no
    ELSE LET package_id == mc_seq_no - (mc_seq_no % ARCHIVE_SIZE)
             found == GetClosest(mc_seq_no)
         IN IF found # NoPackage /\ package_id < found THEN found ELSE package_id

MoverLocals ==
    [block |-> "b1", proof_kind |-> "none", data_inited |-> FALSE, entry |-> "none",
     data |-> NoFile, package_id |-> NoPackage, proof_file |-> "none",
     block_file |-> "none", result |-> "none"]

\* staged and moved are history: what held of the entry when get_file was called
GetterLocals ==
    [block |-> "b1", kind |-> "block", package_id |-> NoPackage, staged |-> FALSE,
     moved |-> FALSE, result |-> "none", data |-> NoFile]

InitArc ==
    /\ unapplied = [e \in EntryIds |-> NoFile]
    /\ flags \in {f \in [Blocks -> {0, FLAG_KEY_BLOCK}] : f["b1"] = 0}
    /\ moving_to_archive_started = [b \in Blocks |-> FALSE]
    /\ file_maps = {}
    /\ slices = {}
    /\ mpc = [m \in Movers |-> "idle"]
    /\ mloc = [m \in Movers |-> MoverLocals]
    /\ gpc = [g \in Getters |-> "idle"]
    /\ gloc = [g \in Getters |-> GetterLocals]
    /\ history = [early |-> {}, copied |-> {}, copy_failed |-> {}, invoked |-> {},
                  success_failed |-> {}, unlinked |-> {}]

\* ArchiveManager::add_file(entry_id, data), then the caller's set_data /
\* set_proof / set_proof_link on the block handle.  The node stages a block's
\* artifacts before it promotes the block.
AddFile(b, k) ==
    /\ k \in KindsOf(b)
    /\ ~moving_to_archive_started[b]
    /\ unapplied[EntryId(k, b)] = NoFile
    /\ unapplied' = [unapplied EXCEPT ![EntryId(k, b)] = Payload(EntryId(k, b))]
    /\ flags' = [flags EXCEPT ![b] = OrFlag(@, StoredFlag(k))]
    /\ UNCHANGED <<moving_to_archive_started, file_maps, slices, mpc, mloc, gpc, gloc, history>>
    /\ UNCHANGED <<pkgVars, bocVars, idxVars, auxVars>>

\* a load in place of the swap: the flag is read and never set
start_moving_load_only(b) ==
    UNCHANGED moving_to_archive_started

\* BlockHandle::start_moving_to_archive: swap(true); the value returned is the
\* one before the step, moving_to_archive_started[b]
start_moving_to_archive(b) ==
    moving_to_archive_started' = [moving_to_archive_started EXCEPT ![b] = TRUE]

MSet(m, f, v) == [mloc EXCEPT ![m][f] = v]

\* where move_to_archive goes after the proof artifact
AfterProof(data_inited) == IF data_inited THEN "file" ELSE "success"

\* a move_to_archive that takes the prooflink when there is one, else the proof
MoveToArchiveLinkFirst(m, b) ==
    /\ mpc[m] = "idle"
    /\ start_moving_to_archive(b)
    /\ IF moving_to_archive_started[b]
       THEN /\ mpc' = [mpc EXCEPT ![m] = "done"]
            /\ mloc' = [mloc EXCEPT ![m].block = b, ![m].result = "ok"]
            /\ history' = [history EXCEPT !.early = @ \cup {m}]
       ELSE LET pk == IF is_prooflink_inited(b) THEN "prooflink"
                      ELSE IF is_proof_inited(b) THEN "proof" ELSE "none"
                di == is_data_inited(b)
            IN /\ mloc' = [mloc EXCEPT ![m].block = b, ![m].proof_kind = pk,
                                       ![m].data_inited = di,
                                       ![m].entry = IF pk # "none" THEN pk
                                                    ELSE IF di THEN "block" ELSE "none"]
               /\ mpc' = [mpc EXCEPT ![m] = IF pk # "none" THEN "file" ELSE AfterProof(di)]
               /\ UNCHANGED history
    /\ UNCHANGED <<unapplied, flags, file_maps, slices, gpc, gloc>>
    /\ UNCHANGED <<pkgVars, bocVars, idxVars, auxVars>>

\* move_to_archive up to its first await: the test-and-set of moving-started
\* with the early return, then the loads of proof_inited, prooflink_inited and
\* data_inited and the choice of the first move_file_to_archive
MoveToArchive(m, b) ==
    /\ mpc[m] = "idle"
    /\ start_moving_to_archive(b)
    /\ IF moving_to_archive_started[b]
       THEN /\ mpc' = [mpc EXCEPT ![m] = "done"]
            /\ mloc' = [mloc EXCEPT ![m].block = b, ![m].result = "ok"]
            /\ history' = [history EXCEPT !.early = @ \cup {m}]
       ELSE LET pk == IF is_proof_inited(b) THEN "proof"
                      ELSE IF is_prooflink_inited(b) THEN "prooflink" ELSE "none"
                di == is_data_inited(b)
            IN /\ mloc' = [mloc EXCEPT ![m].block = b, ![m].proof_kind = pk,
                                       ![m].data_inited = di,
                                       ![m].entry = IF pk # "none" THEN pk
                                                    ELSE IF di THEN "block" ELSE "none"]
               /\ mpc' = [mpc EXCEPT ![m] = IF pk # "none" THEN "file" ELSE AfterProof(di)]
               /\ UNCHANGED history
    /\ UNCHANGED <<unapplied, flags, file_maps, slices, gpc, gloc>>
    /\ UNCHANGED <<pkgVars, bocVars, idxVars, auxVars>>

MoverEntry(m) == EntryId(mloc[m].entry, mloc[m].block)

\* move_file_to_archive up to get_file_desc: temp_lock().read().await; (the
\* guard is a temporary, dropped at the end of that statement), read_temp_file,
\* get_mc_seq_no, is_key_block, get_package_id_force and the lookup of
\* get_file_desc(package_id, true).  Only this call unlinks or stages files of
\* its block from here on, so the read sees what an earlier read would.
MoveFileToArchive(m) ==
    /\ mpc[m] = "file"
    /\ LET b == mloc[m].block
           id == GetPackageIdForce(McSeqNo(b), is_key_block(b))
       IN IF unapplied[MoverEntry(m)] = NoFile
          THEN /\ mpc' = [mpc EXCEPT ![m] = "done"]
               /\ mloc' = MSet(m, "result", "err")
               /\ history' = [history EXCEPT !.copy_failed = @ \cup {m}]
          ELSE /\ mpc' = [mpc EXCEPT ![m] = IF id \in file_maps THEN "add_file" ELSE "add_desc"]
               /\ mloc' = [mloc EXCEPT ![m].data = unapplied[MoverEntry(m)],
                                       ![m].package_id = id]
               /\ UNCHANGED history
    /\ UNCHANGED <<unapplied, flags, moving_to_archive_started, file_maps, slices, gpc, gloc>>
    /\ UNCHANGED <<pkgVars, bocVars, idxVars, auxVars>>

\* add_file_desc: assert!(file_map.get(id).is_none()), create_dir_all
MoveAddDescAssert(m) ==
    /\ mpc[m] = "add_desc"
    /\ mpc' = [mpc EXCEPT ![m] = IF mloc[m].package_id \in file_maps THEN "panic" ELSE "put_desc"]
    /\ UNCHANGED <<unapplied, flags, moving_to_archive_started, file_maps, slices,
                   mloc, gpc, gloc, history>>
    /\ UNCHANGED <<pkgVars, bocVars, idxVars, auxVars>>

\* add_file_desc: ArchiveSlice::with_data, FileDescription::with_data, file_map.put
MoveAddDescPut(m) ==
    /\ mpc[m] = "put_desc"
    /\ file_maps' = file_maps \cup {mloc[m].package_id}
    /\ mpc' = [mpc EXCEPT ![m] = "add_file"]
    /\ UNCHANGED <<unapplied, flags, moving_to_archive_started, slices, mloc, gpc, gloc, history>>
    /\ UNCHANGED <<pkgVars, bocVars, idxVars, auxVars>>

\* ArchiveSlice::add_file: nothing to do when the offset index has the entry
SliceAddFile(pkg, e, data) ==
    IF \E r \in slices : r.pkg = pkg /\ r.entry = e
    THEN slices
    ELSE slices \cup {[pkg |-> pkg, entry |-> e, data |-> data]}

\* ArchiveSlice::get_file
SliceGetFile(pkg, e) ==
    IF \E r \in slices : r.pkg = pkg /\ r.entry = e
    THEN (CHOOSE r \in slices : r.pkg = pkg /\ r.entry = e).data
    ELSE NoFile

\* move_file_to_archive: archive_slice().add_file succeeds and the file name
\* is returned to move_to_archive
MoveAddFile(m) ==
    /\ mpc[m] = "add_file"
    /\ slices' = SliceAddFile(mloc[m].package_id, MoverEntry(m), mloc[m].data)
    /\ history' = [history EXCEPT !.copied = @ \cup {<<m, MoverEntry(m)>>}]
    /\ IF mloc[m].entry = "block"
       THEN /\ mloc' = MSet(m, "block_file", "block")
            /\ mpc' = [mpc EXCEPT ![m] = "success"]
       ELSE /\ mloc' = [mloc EXCEPT ![m].proof_file = mloc[m].entry,
                                    ![m].entry = IF mloc[m].data_inited THEN "block" ELSE @]
            /\ mpc' = [mpc EXCEPT ![m] = AfterProof(mloc[m].data_inited)]
    /\ UNCHANGED <<unapplied, flags, moving_to_archive_started, file_maps, gpc, gloc>>
    /\ UNCHANGED <<pkgVars, bocVars, idxVars, auxVars>>

\* move_file_to_archive: archive_slice().add_file fails, `?` returns the error
MoveAddFileFail(m) ==
    /\ mpc[m] = "add_file"
    /\ mpc' = [mpc EXCEPT ![m] = "done"]
    /\ mloc' = MSet(m, "result", "err")
    /\ history' = [history EXCEPT !.copy_failed = @ \cup {m}]
    /\ UNCHANGED <<unapplied, flags, moving_to_archive_started, file_maps, slices, gpc, gloc>>
    /\ UNCHANGED <<pkgVars, bocVars, idxVars, auxVars>>

\* on_success() returns an error and move_to_archive goes on to the unlinks
MoveOnSuccessErrIgnored(m) ==
    /\ mpc[m] = "success"
    /\ mpc' = [mpc EXCEPT ![m] = "unlink_proof"]
    /\ history' = [history EXCEPT !.invoked = @ \cup {m}, !.success_failed = @ \cup {m}]
    /\ UNCHANGED <<unapplied, flags, moving_to_archive_started, file_maps, slices,
                   mloc, gpc, gloc>>
    /\ UNCHANGED <<pkgVars, bocVars, idxVars, auxVars>>

\* on_success()? returns an error: move_to_archive returns it
MoveOnSuccessErr(m) ==
    /\ mpc[m] = "success"
    /\ mpc' = [mpc EXCEPT ![m] = "done"]
    /\ mloc' = MSet(m, "result", "err")
    /\ history' = [history EXCEPT !.invoked = @ \cup {m}, !.success_failed = @ \cup {m}]
    /\ UNCHANGED <<unapplied, flags, moving_to_archive_started, file_maps, slices, gpc, gloc>>
    /\ UNCHANGED <<pkgVars, bocVars, idxVars, auxVars>>

\* the caller's on_success: set_moved_to_archive and the store of the block meta
OnSuccess(b) ==
    flags' = [flags EXCEPT ![b] = OrFlag(@, FLAG_MOVED_TO_ARCHIVE)]

\* on_success()? returns Ok
MoveOnSuccess(m) ==
    /\ mpc[m] = "success"
    /\ OnSuccess(mloc[m].block)
    /\ mpc' = [mpc EXCEPT ![m] = "unlink_proof"]
    /\ history' = [history EXCEPT !.invoked = @ \cup {m}]
    /\ UNCHANGED <<unapplied, moving_to_archive_started, file_maps, slices, mloc, gpc, gloc>>
    /\ UNCHANGED <<pkgVars, bocVars, idxVars, auxVars>>

\* temp_lock().write().await; (again a temporary), then remove_file(proof_filename)
MoveUnlinkProof(m) ==
    /\ mpc[m] = "unlink_proof"
    /\ LET e == EntryId(mloc[m].proof_file, mloc[m].block)
       IN IF mloc[m].proof_file = "none"
          THEN /\ mpc' = [mpc EXCEPT ![m] = "unlink_block"]
               /\ UNCHANGED <<unapplied, mloc, history>>
          ELSE IF unapplied[e] = NoFile
          THEN /\ mpc' = [mpc EXCEPT ![m] = "done"]
               /\ mloc' = MSet(m, "result", "err")
               /\ UNCHANGED <<unapplied, history>>
          ELSE /\ unapplied' = [unapplied EXCEPT ![e] = NoFile]
               /\ history' = [history EXCEPT !.unlinked = @ \cup {<<m, e>>}]
               /\ mpc' = [mpc EXCEPT ![m] = "unlink_block"]
               /\ UNCHANGED mloc
    /\ UNCHANGED <<flags, moving_to_archive_started, file_maps, slices, gpc, gloc>>
    /\ UNCHANGED <<pkgVars, bocVars, idxVars, auxVars>>

\* remove_file(block_filename), Ok(())
MoveUnlinkBlock(m) ==
    /\ mpc[m] = "unlink_block"
    /\ LET e == EntryId("block", mloc[m].block)
       IN IF mloc[m].block_file = "none"
          THEN /\ mloc' = MSet(m, "result", "ok")
               /\ UNCHANGED <<unapplied, history>>
          ELSE IF unapplied[e] = NoFile
          THEN /\ mloc' = MSet(m, "result", "err")
               /\ UNCHANGED <<unapplied, history>>
          ELSE /\ unapplied' = [unapplied EXCEPT ![e] = NoFile]
               /\ history' = [history EXCEPT !.unlinked = @ \cup {<<m, e>>}]
               /\ mloc' = MSet(m, "result", "ok")
    /\ mpc' = [mpc EXCEPT ![m] = "done"]
    /\ UNCHANGED <<flags, moving_to_archive_started, file_maps, slices, gpc, gloc>>
    /\ UNCHANGED <<pkgVars, bocVars, idxVars, auxVars>>

\* a move_to_archive of b has returned Ok, moved_to_archive is set on b and the
\* call has copied the entry of kind k
MovedAndCopied(b, k) ==
    /\ is_moved_to_archive(b)
    /\ \E m \in Movers :
        /\ mpc[m] = "done"
        /\ mloc[m].block = b
        /\ mloc[m].result = "ok"
        /\ <<m, EntryId(k, b)>> \in history.copied

GSet(g, f, v) == [gloc EXCEPT ![g][f] = v]

\* get_file is called: temp_lock().read().await; (the guard is a temporary,
\* dropped at the end of that statement)
GetFile(g, b, k) ==
    /\ gpc[g] = "idle"
    /\ k \in KindsOf(b)
    /\ gpc' = [gpc EXCEPT ![g] = "check"]
    /\ gloc' = [gloc EXCEPT ![g].block = b, ![g].kind = k,
                            ![g].staged = (unapplied[EntryId(k, b)] # NoFile),
                            ![g].moved = MovedAndCopied(b, k)]
    /\ UNCHANGED <<unapplied, flags, moving_to_archive_started, file_maps, slices,
                   mpc, mloc, history>>
    /\ UNCHANGED <<pkgVars, bocVars, idxVars, auxVars>>

\* if is_moved_to_archive(block_meta)
GetCheckMoved(g) ==
    /\ gpc[g] = "check"
    /\ gpc' = [gpc EXCEPT ![g] = IF is_moved_to_archive(gloc[g].block) THEN "package" ELSE "temp"]
    /\ UNCHANGED <<unapplied, flags, moving_to_archive_started, file_maps, slices,
                   mpc, mloc, gloc, history>>
    /\ UNCHANGED <<pkgVars, bocVars, idxVars, auxVars>>

\* get_package_id(get_mc_seq_no(..))? and get_file_desc(package_id, false)
GetPackageId(g) ==
    /\ gpc[g] = "package"
    /\ LET id == GetClosest(McSeqNo(gloc[g].block))
       IN IF id = NoPackage
          THEN /\ gpc' = [gpc EXCEPT ![g] = "done"]
               /\ gloc' = GSet(g, "result", "err")
          ELSE /\ gpc' = [gpc EXCEPT ![g] = "slice"]
               /\ gloc' = GSet(g, "package_id", id)
    /\ UNCHANGED <<unapplied, flags, moving_to_archive_started, file_maps, slices,
                   mpc, mloc, history>>
    /\ UNCHANGED <<pkgVars, bocVars, idxVars, auxVars>>

\* fd.archive_slice().get_file(..)?.take_data()
GetFromSlice(g) ==
    /\ gpc[g] = "slice"
    /\ LET data == SliceGetFile(gloc[g].package_id, EntryId(gloc[g].kind, gloc[g].block))
       IN gloc' = [gloc EXCEPT ![g].result = IF data = NoFile THEN "err" ELSE "ok",
                               ![g].data = data]
    /\ gpc' = [gpc EXCEPT ![g] = "done"]
    /\ UNCHANGED <<unapplied, flags, moving_to_archive_started, file_maps, slices,
                   mpc, mloc, history>>
    /\ UNCHANGED <<pkgVars, bocVars, idxVars, auxVars>>

\* read_temp_file(entry_id)
GetReadTemp(g) ==
    /\ gpc[g] = "temp"
    /\ LET data == unapplied[EntryId(gloc[g].kind, gloc[g].block)]
       IN gloc' = [gloc EXCEPT ![g].result = IF data = NoFile THEN "err" ELSE "ok",
                               ![g].data = data]
    /\ gpc' = [gpc EXCEPT ![g] = "done"]
    /\ UNCHANGED <<unapplied, flags, moving_to_archive_started, file_maps, slices,
                   mpc, mloc, history>>
    /\ UNCHANGED <<pkgVars, bocVars, idxVars, auxVars>>

NextArc ==
    \/ \E b \in Blocks, k \in Kinds : AddFile(b, k)
    \/ \E m \in Movers, b \in Blocks : MoveToArchive(m, b)
    \/ \E m \in Movers : MoveFileToArchive(m)
    \/ \E m \in Movers : MoveAddDescAssert(m)
    \/ \E m \in Movers : MoveAddDescPut(m)
    \/ \E m \in Movers : MoveAddFile(m)
    \/ \E m \in Movers : MoveAddFileFail(m)
    \/ \E m \in Movers : MoveOnSuccess(m)
    \/ \E m \in Movers : MoveOnSuccessErr(m)
    \/ \E m \in Movers : MoveUnlinkProof(m)
    \/ \E m \in Movers : MoveUnlinkBlock(m)
    \/ \E g \in Getters, b \in Blocks, k \in Kinds : GetFile(g, b, k)
    \/ \E g \in Getters : GetCheckMoved(g)
    \/ \E g \in Getters : GetPackageId(g)
    \/ \E g \in Getters : GetFromSlice(g)
    \/ \E g \in Getters : GetReadTemp(g)

(***************************************************************************)
(*                    DYNAMIC BOC STORE AND GARBAGE COLLECTOR              *)
(***************************************************************************)

\* ---- bounds of the BOC model
\* the StorageCell instances of one cell that are alive at once
MaxCopies == 2
\* the Arcs of instances a reader thread holds at once
MaxHeld == 2
\* the calls of GC::collect in a run
MaxCollects == 1

\* AllowStateGcResolverImpl::shard_state_ttl, 3600 * 24
SHARD_STATE_TTL == 86400

\* the cells the node builds its states of: R -> C1, C2 -> L (a diamond) and
\* Q -> C2 (a second root, which shares C2 and L with R)
CellSeq == <<"R", "C1", "C2", "Q", "L">>
CellIds == {CellSeq[k] : k \in 1..Len(CellSeq)}
NoCell == "none"
Children(c) ==
    CASE c = "R" -> <<"C1", "C2">>
      [] c = "C1" -> <<"L">>
      [] c = "C2" -> <<"L">>
      [] c = "Q" -> <<"C2">>
      [] OTHER -> <<>>

\* the shard states: their root cells and their blocks' gen_utime
States == <<"s1", "s2">>
StateIds == {States[k] : k \in 1..Len(States)}
RootOf(st) == IF st = "s1" THEN "R" ELSE "Q"
GenUtime(st) == IF st = "s1" THEN 1 ELSE 0
\* UnixTime32::now() at the start of a collect: gen_utime + ttl of s1 is equal
\* to it, that of s2 is below it
Nows == {SHARD_STATE_TTL + 1}
\* a later now: gen_utime + ttl of both states is below it
LateNows == {SHARD_STATE_TTL + 2}

Threads == {"t1"}
\* the places a StorageCell can be allocated at, MaxCopies for every cell
InstIds == 1..(Len(CellSeq) * MaxCopies)
SlotsOf(id) ==
    LET n == CHOOSE k \in 1..Len(CellSeq) : CellSeq[k] = id
    IN ((n - 1) * MaxCopies + 1)..(n * MaxCopies)

\* a slot of the instance table that holds no StorageCell
NoInst == [cell |-> NoCell, gc_gen |-> 0, refs |-> <<>>]

RECURSIVE ReachCells(_)
\* the cells of the tree of cells rooted at c
ReachCells(c) ==
    {c} \cup UNION {ReachCells(Children(c)[k]) : k \in 1..Len(Children(c))}

(* ---- save_as_dynamic_boc ---- *)

RECURSIVE SaveTreeAlways(_, _, _), SaveRefsAlways(_, _, _, _)
\* a save that does not ask the cell DB whether the cell is stored
SaveTreeAlways(c, db, acc) ==
    SaveRefsAlways(c, 1, db, [count |-> acc.count + 1, diff |-> acc.diff \cup {c}])
SaveRefsAlways(c, i, db, acc) ==
    IF i > Len(Children(c)) THEN acc
    ELSE SaveRefsAlways(c, i + 1, db, SaveTreeAlways(Children(c)[i], db, acc))

RECURSIVE SaveTreeOfCells(_, _, _), SaveRefs(_, _, _, _)
\* DynamicBocDb::save_tree_of_cells_recursive: acc.count is the count returned,
\* acc.diff the cells handed to diff_writer.add_cell
SaveTreeOfCells(c, db, acc) ==
    IF c \in db THEN acc
    ELSE SaveRefs(c, 1, db, [count |-> acc.count + 1, diff |-> acc.diff \cup {c}])
\* the loop over cell.reference(i) of save_tree_of_cells_recursive
SaveRefs(c, i, db, acc) ==
    IF i > Len(Children(c)) THEN acc
    ELSE SaveRefs(c, i + 1, db, SaveTreeOfCells(Children(c)[i], db, acc))

(* ---- the instances and the cache ---- *)

\* the state the recursive walks thread through: the instances, the cache,
\* the pending deletes of the sweep transaction, the error and the value returned
Heap(i, c, t) == [inst |-> i, cells |-> c, txn |-> t, err |-> "none", ret |-> 0]

FreeIds(h, id) == {i \in SlotsOf(id) : h.inst[i].cell = NoCell}

\* Arc::new(CellDb::get_cell(..)): StorageCell::deserialize gives gc_gen 0 and
\* every reference NeedToLoad (0)
NewCell(h, id) ==
    LET n == CHOOSE i \in FreeIds(h, id) : \A j \in FreeIds(h, id) : i <= j
    IN [h EXCEPT !.inst[n] = [cell |-> id, gc_gen |-> 0,
                              refs |-> [k \in 1..Len(Children(id)) |-> 0]],
                 !.ret = n]

\* load_cell that reads the cell DB whatever the cache holds
LoadCellNoCache(h, id) ==
    IF h.err # "none" THEN h
    ELSE IF id \notin cell_db THEN [h EXCEPT !.err = "notfound"]
    ELSE IF FreeIds(h, id) = {} THEN [h EXCEPT !.err = "full"]
    ELSE LET a == NewCell(h, id) IN [a EXCEPT !.cells[id] = a.ret]

\* DynamicBocDb::load_cell run without interruption
LoadCell(h, id) ==
    IF h.err # "none" THEN h
    ELSE IF h.cells[id] # 0 THEN [h EXCEPT !.ret = h.cells[id]]
    ELSE IF id \notin cell_db THEN [h EXCEPT !.err = "notfound"]
    ELSE IF FreeIds(h, id) = {} THEN [h EXCEPT !.err = "full"]
    ELSE LET a == NewCell(h, id) IN [a EXCEPT !.cells[id] = a.ret]

\* StorageCell::reference(index) run without interruption
Reference(h, r, i) ==
    IF h.err # "none" THEN h
    ELSE IF h.inst[r].refs[i] # 0 THEN [h EXCEPT !.ret = h.inst[r].refs[i]]
    ELSE LET l == LoadCell(h, Children(h.inst[r].cell)[i])
         IN IF l.err # "none" THEN l ELSE [l EXCEPT !.inst[r].refs[i] = l.ret]

RECURSIVE ReachInst(_, _)
\* the instances kept alive by the Arcs in S and the Loaded references below them
ReachInst(it, S) ==
    LET nxt == S \cup UNION {{it[i].refs[k] : k \in 1..Len(it[i].refs)} : i \in S}
    IN IF nxt \ {0} = S THEN S ELSE ReachInst(it, nxt \ {0})

\* impl Drop for StorageCell, for every instance no Arc keeps alive: the
\* cache entry under the instance's id is removed, whichever instance it is of
DropUnheld(it, cs, roots) ==
    LET live == ReachInst(it, roots)
        dead == {i \in InstIds : it[i].cell # NoCell /\ i \notin live}
    IN [inst |-> [i \in InstIds |-> IF i \in dead THEN NoInst ELSE it[i]],
        cells |-> [c \in CellIds |-> IF \E i \in dead : it[i].cell = c THEN 0 ELSE cs[c]]]

RECURSIVE MarkSubtree(_, _, _), MarkRefs(_, _, _, _)
\* GC::mark_subtree_recursive
MarkSubtree(h, r, g) ==
    IF h.err # "none" \/ h.inst[r].gc_gen >= g THEN h
    ELSE MarkRefs([h EXCEPT !.inst[r].gc_gen = g], r, 1, g)
\* the loop over root.reference(i) of mark_subtree_recursive
MarkRefs(h, r, i, g) ==
    IF h.err # "none" \/ i > Len(h.inst[r].refs) THEN h
    ELSE LET c == Reference(h, r, i)
         IN IF c.err # "none" THEN c ELSE MarkRefs(MarkSubtree(c, c.ret, g), r, i + 1, g)

RECURSIVE MarkRoots(_, _, _, _)
\* the loop over to_mark of GC::mark: load_cell, mark_subtree_recursive, marked.push
MarkRoots(h, to_mark, g, marked) ==
    IF h.err # "none" \/ to_mark = <<>> THEN [heap |-> h, marked |-> marked]
    ELSE LET l == LoadCell(h, Head(to_mark))
         IN IF l.err # "none" THEN [heap |-> l, marked |-> marked]
            ELSE MarkRoots(MarkSubtree(l, l.ret, g), Tail(to_mark), g, marked \cup {l.ret})

RECURSIVE SweepCells(_, _, _), SweepRefs(_, _, _, _)
\* GC::sweep_cells_recursive
SweepCells(h, r, g) ==
    IF h.err # "none" \/ h.inst[r].gc_gen >= g THEN h
    ELSE LET w == SweepRefs(h, r, 1, g)
         IN IF w.err # "none" THEN w
            ELSE IF w.inst[r].gc_gen < g
                 THEN [w EXCEPT !.txn = Append(@, w.inst[r].cell)]
                 ELSE w
\* the loop over root.reference(i) of sweep_cells_recursive
SweepRefs(h, r, i, g) ==
    IF h.err # "none" \/ i > Len(h.inst[r].refs) THEN h
    ELSE LET c == Reference(h, r, i)
         IN IF c.err # "none" THEN c ELSE SweepRefs(SweepCells(c, c.ret, g), r, i + 1, g)

SeqToSet(q) == {q[k] : k \in 1..Len(q)}

\* KvcTransaction::commit of a transaction of deletes: the batch is applied to
\* the database as one write
Commit(db, txn) == db \ SeqToSet(txn)

ThreadLocals == [cell |-> NoCell, inst |-> 0, parent |-> 0, index |-> 0]
\* again, clean and failed are history: the root had been saved with no GC
\* commit since, no GC has committed since this save began, and the last
\* save_as_dynamic_boc returned an error
SaverLocals ==
    [state |-> "s1", count |-> 0, diff |-> {}, again |-> FALSE, clean |-> TRUE,
     failed |-> FALSE]
\* kept, swept and removed are history: the states the resolver refused, the
\* states whose index entry the call has deleted, the cell records it has removed
GcIdle ==
    [pc |-> "idle", gc_gen |-> 0, gc_utime |-> 0, to_mark |-> <<>>, to_sweep |-> <<>>,
     marked |-> {}, txn |-> <<>>, kept |-> {}, swept |-> {}, removed |-> {},
     result |-> "none", count |-> 0]

\* the instances some Arc outside the instances keeps alive: those the threads
\* hold, the one a thread has read and not yet put into the cache, and GC's marked
Roots(hd, tl, marked) ==
    UNION {hd[t] : t \in Threads} \cup ({tl[t].inst : t \in Threads} \ {0}) \cup marked

InitBoc ==
    /\ cell_db = {}
    /\ shardstate_db = [st \in StateIds |-> NoCell]
    /\ cells = [c \in CellIds |-> 0]
    /\ inst = [i \in InstIds |-> NoInst]
    /\ held = [t \in Threads |-> {}]
    /\ tpc = [t \in Threads |-> "idle"]
    /\ tloc = [t \in Threads |-> ThreadLocals]
    /\ spc = "idle"
    /\ sloc = SaverLocals
    /\ gc = GcIdle
    /\ gc_generation = 0
    /\ saved = {}

(* ---- ShardStateDb::put ---- *)

\* a save that puts the root into the cell DB when it meets it and leaves
\* the rest to the batch
PutSaveStreaming(st) ==
    /\ spc = "idle"
    /\ LET r == SaveTreeOfCells(RootOf(st), cell_db, [count |-> 0, diff |-> {}])
       IN sloc' = [state |-> st, count |-> r.count, diff |-> r.diff,
                   again |-> RootOf(st) \in saved, clean |-> TRUE, failed |-> FALSE]
    /\ spc' = "apply"
    /\ cell_db' = cell_db \cup {RootOf(st)}
    /\ UNCHANGED <<shardstate_db, cells, inst, held, tpc, tloc, gc, gc_generation, saved>>
    /\ UNCHANGED <<pkgVars, arcVars, idxVars, auxVars>>

\* put: save_as_dynamic_boc walks the tree of cells of the state root
PutSave(st) ==
    /\ spc = "idle"
    /\ LET r == SaveTreeOfCells(RootOf(st), cell_db, [count |-> 0, diff |-> {}])
       IN sloc' = [state |-> st, count |-> r.count, diff |-> r.diff,
                   again |-> RootOf(st) \in saved, clean |-> TRUE, failed |-> FALSE]
    /\ spc' = "apply"
    /\ UNCHANGED <<cell_db, shardstate_db, cells, inst, held, tpc, tloc, gc, gc_generation,
                   saved>>
    /\ UNCHANGED <<pkgVars, arcVars, idxVars, auxVars>>

\* put: the walk fails (cell_db.contains(..)? or cell.reference(i)? is an
\* error) and save_as_dynamic_boc returns it; the diff writer is dropped
PutSaveFail(st) ==
    /\ spc = "idle"
    /\ sloc' = [SaverLocals EXCEPT !.state = st, !.failed = TRUE]
    /\ UNCHANGED <<cell_db, shardstate_db, cells, inst, held, tpc, tloc, spc, gc,
                   gc_generation, saved>>
    /\ UNCHANGED <<pkgVars, arcVars, idxVars, auxVars>>

\* put: diff_writer.apply() writes the batch, save_as_dynamic_boc returns the count
PutApply ==
    /\ spc = "apply"
    /\ cell_db' = cell_db \cup sloc.diff
    /\ saved' = IF sloc.clean THEN saved \cup {RootOf(sloc.state)} ELSE saved
    /\ spc' = "index"
    /\ UNCHANGED <<shardstate_db, cells, inst, held, tpc, tloc, sloc, gc, gc_generation>>
    /\ UNCHANGED <<pkgVars, arcVars, idxVars, auxVars>>

\* put: shardstate_db.put(id, db_entry)
PutIndex ==
    /\ spc = "index"
    /\ shardstate_db' = [shardstate_db EXCEPT ![sloc.state] = RootOf(sloc.state)]
    /\ spc' = "idle"
    /\ sloc' = SaverLocals
    /\ UNCHANGED <<cell_db, cells, inst, held, tpc, tloc, gc, gc_generation, saved>>
    /\ UNCHANGED <<pkgVars, arcVars, idxVars, auxVars>>

(* ---- load_cell and reference on the reader threads ---- *)

\* load_dynamic_boc(id) of a state root: load_cell(id), the cache check under
\* the read lock; a hit returns the instance
ThreadLoadCell(t, id) ==
    /\ tpc[t] = "idle"
    /\ Cardinality(held[t]) < MaxHeld
    /\ IF cells[id] # 0
       THEN /\ held' = [held EXCEPT ![t] = @ \cup {cells[id]}]
            /\ UNCHANGED <<tpc, tloc>>
       ELSE /\ tpc' = [tpc EXCEPT ![t] = "db"]
            /\ tloc' = [tloc EXCEPT ![t] = [ThreadLocals EXCEPT !.cell = id]]
            /\ UNCHANGED held
    /\ UNCHANGED <<cell_db, shardstate_db, cells, inst, spc, sloc, gc, gc_generation, saved>>
    /\ UNCHANGED <<pkgVars, arcVars, idxVars, auxVars>>

\* reference(i) on an instance the thread holds: a Loaded slot is returned; for
\* a NeedToLoad slot load_cell checks the cache, and a hit is stored in the slot
ThreadReference(t, r, i) ==
    /\ tpc[t] = "idle"
    /\ Cardinality(held[t]) < MaxHeld
    /\ r \in held[t]
    /\ i \in 1..Len(inst[r].refs)
    /\ LET id == Children(inst[r].cell)[i]
       IN IF inst[r].refs[i] # 0
          THEN /\ held' = [held EXCEPT ![t] = @ \cup {inst[r].refs[i]}]
               /\ UNCHANGED <<tpc, tloc, inst>>
          ELSE IF cells[id] # 0
          THEN /\ inst' = [inst EXCEPT ![r].refs[i] = cells[id]]
               /\ held' = [held EXCEPT ![t] = @ \cup {cells[id]}]
               /\ UNCHANGED <<tpc, tloc>>
          ELSE /\ tpc' = [tpc EXCEPT ![t] = "db"]
               /\ tloc' = [tloc EXCEPT ![t] = [cell |-> id, inst |-> 0, parent |-> r,
                                                index |-> i]]
               /\ UNCHANGED <<held, inst>>
    /\ UNCHANGED <<cell_db, shardstate_db, cells, spc, sloc, gc, gc_generation, saved>>
    /\ UNCHANGED <<pkgVars, arcVars, idxVars, auxVars>>

\* load_cell after a miss: Arc::new(CellDb::get_cell(..)?)
ThreadDbRead(t) ==
    /\ tpc[t] = "db"
    /\ IF tloc[t].cell \in cell_db
       THEN /\ FreeIds(Heap(inst, cells, <<>>), tloc[t].cell) # {}
            /\ LET h == NewCell(Heap(inst, cells, <<>>), tloc[t].cell)
               IN /\ inst' = h.inst
                  /\ tloc' = [tloc EXCEPT ![t].inst = h.ret]
            /\ tpc' = [tpc EXCEPT ![t] = "insert"]
       ELSE /\ tpc' = [tpc EXCEPT ![t] = "idle"]
            /\ tloc' = [tloc EXCEPT ![t] = ThreadLocals]
            /\ UNCHANGED inst
    /\ UNCHANGED <<cell_db, shardstate_db, cells, held, spc, sloc, gc, gc_generation, saved>>
    /\ UNCHANGED <<pkgVars, arcVars, idxVars, auxVars>>

\* load_cell after the read: guard.insert(cell_id, Arc::downgrade(..)) under the
\* write lock; reference() then stores the instance in its slot
ThreadCacheInsert(t) ==
    /\ tpc[t] = "insert"
    /\ LET n == tloc[t].inst
           r == tloc[t].parent
           it == IF r = 0 THEN inst ELSE [inst EXCEPT ![r].refs[tloc[t].index] = n]
           cs == [cells EXCEPT ![tloc[t].cell] = n]
           hd == [held EXCEPT ![t] = @ \cup {n}]
           d == DropUnheld(it, cs, Roots(hd, [tloc EXCEPT ![t] = ThreadLocals], gc.marked))
       IN /\ inst' = d.inst
          /\ cells' = d.cells
          /\ held' = hd
    /\ tpc' = [tpc EXCEPT ![t] = "idle"]
    /\ tloc' = [tloc EXCEPT ![t] = ThreadLocals]
    /\ UNCHANGED <<cell_db, shardstate_db, spc, sloc, gc, gc_generation, saved>>
    /\ UNCHANGED <<pkgVars, arcVars, idxVars, auxVars>>

\* the thread drops its Arc of an instance; impl Drop for StorageCell runs for
\* every instance this leaves without an Arc
ThreadDrop(t, r) ==
    /\ r \in held[t]
    /\ tloc[t].parent # r
    /\ LET hd == [held EXCEPT ![t] = @ \ {r}]
           d == DropUnheld(inst, cells, Roots(hd, tloc, gc.marked))
       IN /\ inst' = d.inst
          /\ cells' = d.cells
          /\ held' = hd
    /\ UNCHANGED <<cell_db, shardstate_db, tpc, tloc, spc, sloc, gc, gc_generation, saved>>
    /\ UNCHANGED <<pkgVars, arcVars, idxVars, auxVars>>

(* ---- GC::collect ---- *)

\* AllowStateGcResolverImpl::allow_state_gc
AllowStateGc(st, gc_utime) == GenUtime(st) + SHARD_STATE_TTL < gc_utime

\* the index entries in the order for_each visits them
Indexed == SelectSeq(States, LAMBDA st : shardstate_db[st] # NoCell)

\* a scan that asks the resolver alone, not the cache
IsDeadByTtl(st, gc_utime) == AllowStateGc(st, gc_utime)

\* the test of GC::mark that puts an index entry into to_sweep
IsDead(st, gc_utime) == cells[shardstate_db[st]] = 0 /\ AllowStateGc(st, gc_utime)

RootsOf(q) == [k \in 1..Len(q) |-> shardstate_db[q[k]]]

\* a collect that loads and stamps the kept roots also when nothing is dead
GcScanAlwaysMark(now) ==
    /\ gc.pc = "idle"
    /\ gc_generation < MaxCollects
    /\ gc_generation' = gc_generation + 1
    /\ LET dead == SelectSeq(Indexed, LAMBDA st : IsDead(st, now))
           live == SelectSeq(Indexed, LAMBDA st : ~IsDead(st, now))
       IN gc' = [GcIdle EXCEPT !.pc = "mark",
                                !.gc_gen = gc_generation + 1,
                                !.gc_utime = now,
                                !.to_mark = RootsOf(live),
                                !.to_sweep = dead,
                                !.kept = {st \in SeqToSet(Indexed) : ~AllowStateGc(st, now)}]
    /\ UNCHANGED <<cell_db, shardstate_db, cells, inst, held, tpc, tloc, spc, sloc, saved>>
    /\ UNCHANGED <<pkgVars, arcVars, idxVars, auxVars>>

\* collect: new_gc_generation(), UnixTime32::now(), and the for_each of mark,
\* which sorts the index entries into to_sweep and to_mark.  With nothing to
\* sweep mark loads nothing and sweep returns Ok(0).
GcScanAt(now) ==
    /\ gc.pc = "idle"
    /\ gc_generation < MaxCollects
    /\ gc_generation' = gc_generation + 1
    /\ LET dead == SelectSeq(Indexed, LAMBDA st : IsDead(st, now))
           live == SelectSeq(Indexed, LAMBDA st : ~IsDead(st, now))
       IN gc' = [GcIdle EXCEPT !.pc = IF dead = <<>> THEN "idle" ELSE "mark",
                                !.gc_gen = gc_generation + 1,
                                !.gc_utime = now,
                                !.to_mark = RootsOf(live),
                                !.to_sweep = dead,
                                !.kept = {st \in SeqToSet(Indexed) : ~AllowStateGc(st, now)},
                                !.result = IF dead = <<>> THEN "ok" ELSE "none"]
    /\ UNCHANGED <<cell_db, shardstate_db, cells, inst, held, tpc, tloc, spc, sloc, saved>>
    /\ UNCHANGED <<pkgVars, arcVars, idxVars, auxVars>>

GcScan == \E now \in Nows : GcScanAt(now)

\* mark: allow_state_gc(..)? returns an error (get_block_meta fails) for an
\* index entry whose root is not in the cache, and collect returns it
GcScanFail ==
    /\ gc.pc = "idle"
    /\ gc_generation < MaxCollects
    /\ \E k \in 1..Len(Indexed) : cells[shardstate_db[Indexed[k]]] = 0
    /\ gc_generation' = gc_generation + 1
    /\ gc' = [GcIdle EXCEPT !.gc_gen = gc_generation + 1, !.result = "err"]
    /\ UNCHANGED <<cell_db, shardstate_db, cells, inst, held, tpc, tloc, spc, sloc, saved>>
    /\ UNCHANGED <<pkgVars, arcVars, idxVars, auxVars>>

\* a collect that starts when every stored state is past its TTL
GcScanLate == \E now \in LateNows : GcScanAt(now)

\* a mark that stamps the subtrees and lets go of the roots when it returns
GcMarkUnpinned ==
    /\ gc.pc = "mark"
    /\ LET m == MarkRoots(Heap(inst, cells, <<>>), gc.to_mark, gc.gc_gen, {})
           ok == m.heap.err = "none"
           d == DropUnheld(m.heap.inst, m.heap.cells, Roots(held, tloc, {}))
       IN /\ m.heap.err # "full"
          /\ inst' = d.inst
          /\ cells' = d.cells
          /\ gc' = [gc EXCEPT !.pc = IF ok THEN "sweep" ELSE "idle",
                              !.marked = {},
                              !.result = IF ok THEN "none" ELSE "err"]
    /\ UNCHANGED <<cell_db, shardstate_db, held, tpc, tloc, spc, sloc, gc_generation, saved>>
    /\ UNCHANGED <<pkgVars, arcVars, idxVars, auxVars>>

\* mark: every root of to_mark is loaded, its subtree stamped with gc_gen, and
\* the root kept in marked; an error of load_cell ends collect
GcMark ==
    /\ gc.pc = "mark"
    /\ LET m == MarkRoots(Heap(inst, cells, <<>>), gc.to_mark, gc.gc_gen, {})
           ok == m.heap.err = "none"
           d == DropUnheld(m.heap.inst, m.heap.cells,
                           Roots(held, tloc, IF ok THEN m.marked ELSE {}))
       IN /\ m.heap.err # "full"
          /\ inst' = d.inst
          /\ cells' = d.cells
          /\ gc' = [gc EXCEPT !.pc = IF ok THEN "sweep" ELSE "idle",
                              !.marked = IF ok THEN m.marked ELSE {},
                              !.result = IF ok THEN "none" ELSE "err"]
    /\ UNCHANGED <<cell_db, shardstate_db, held, tpc, tloc, spc, sloc, gc_generation, saved>>
    /\ UNCHANGED <<pkgVars, arcVars, idxVars, auxVars>>

\* mark: load_cell(&cell_id)? of a root of to_mark fails on a read error of the
\* cell DB; the roots marked so far are dropped and collect returns the error
GcMarkFail ==
    /\ gc.pc = "mark"
    /\ gc.to_mark # <<>>
    /\ gc' = [gc EXCEPT !.pc = "idle", !.result = "err"]
    /\ UNCHANGED <<cell_db, shardstate_db, cells, inst, held, tpc, tloc, spc, sloc,
                   gc_generation, saved>>
    /\ UNCHANGED <<pkgVars, arcVars, idxVars, auxVars>>

\* sweep with each delete applied to the cell DB at once, not at the commit
GcSweepRootEager ==
    /\ gc.pc = "sweep"
    /\ gc.to_sweep # <<>>
    /\ LET st == Head(gc.to_sweep)
           l == LoadCell(Heap(inst, cells, gc.txn), RootOf(st))
           w == IF l.err # "none" THEN l ELSE SweepCells(l, l.ret, gc.gc_gen)
           ok == w.err = "none"
           d == DropUnheld(w.inst, w.cells, Roots(held, tloc, gc.marked))
       IN /\ w.err # "full"
          /\ inst' = d.inst
          /\ cells' = d.cells
          /\ cell_db' = IF ok THEN cell_db \ SeqToSet(w.txn) ELSE cell_db
          /\ shardstate_db' = IF ok THEN [shardstate_db EXCEPT ![st] = NoCell]
                              ELSE shardstate_db
          /\ gc' = [gc EXCEPT !.pc = IF ok THEN "sweep" ELSE "drop",
                              !.txn = IF ok THEN w.txn ELSE <<>>,
                              !.to_sweep = Tail(@),
                              !.swept = IF ok THEN @ \cup {st} ELSE @,
                              !.result = IF ok THEN "none" ELSE "err"]
    /\ UNCHANGED <<held, tpc, tloc, spc, sloc, gc_generation, saved>>
    /\ UNCHANGED <<pkgVars, arcVars, idxVars, auxVars>>

\* sweep, one turn of the loop over to_sweep: load_cell of the root,
\* sweep_cells_recursive, shardstate_db.delete; an error of load_cell ends the
\* sweep, and the transaction is dropped
GcSweepRoot ==
    /\ gc.pc = "sweep"
    /\ gc.to_sweep # <<>>
    /\ LET st == Head(gc.to_sweep)
           l == LoadCell(Heap(inst, cells, gc.txn), RootOf(st))
           w == IF l.err # "none" THEN l ELSE SweepCells(l, l.ret, gc.gc_gen)
           ok == w.err = "none"
           d == DropUnheld(w.inst, w.cells, Roots(held, tloc, gc.marked))
       IN /\ w.err # "full"
          /\ inst' = d.inst
          /\ cells' = d.cells
          /\ shardstate_db' = IF ok THEN [shardstate_db EXCEPT ![st] = NoCell]
                              ELSE shardstate_db
          /\ gc' = [gc EXCEPT !.pc = IF ok THEN "sweep" ELSE "drop",
                              !.txn = IF ok THEN w.txn ELSE <<>>,
                              !.to_sweep = Tail(@),
                              !.swept = IF ok THEN @ \cup {st} ELSE @,
                              !.result = IF ok THEN "none" ELSE "err"]
    /\ UNCHANGED <<cell_db, held, tpc, tloc, spc, sloc, gc_generation, saved>>
    /\ UNCHANGED <<pkgVars, arcVars, idxVars, auxVars>>

\* sweep: load_cell(&cell_id)? of the next root of to_sweep fails on a read
\* error of the cell DB; sweep returns the error and the transaction is dropped
GcSweepRootFail ==
    /\ gc.pc = "sweep"
    /\ gc.to_sweep # <<>>
    /\ gc' = [gc EXCEPT !.pc = "drop", !.txn = <<>>, !.result = "err"]
    /\ UNCHANGED <<cell_db, shardstate_db, cells, inst, held, tpc, tloc, spc, sloc,
                   gc_generation, saved>>
    /\ UNCHANGED <<pkgVars, arcVars, idxVars, auxVars>>

\* sweep: transaction.commit()? fails; nothing of the batch is written
GcCommitFail ==
    /\ gc.pc = "sweep"
    /\ gc.to_sweep = <<>>
    /\ gc' = [gc EXCEPT !.pc = "drop", !.txn = <<>>, !.result = "err"]
    /\ UNCHANGED <<cell_db, shardstate_db, cells, inst, held, tpc, tloc, spc, sloc,
                   gc_generation, saved>>
    /\ UNCHANGED <<pkgVars, arcVars, idxVars, auxVars>>

\* sweep: delete_count = transaction.len(), transaction.commit()
GcCommit ==
    /\ gc.pc = "sweep"
    /\ gc.to_sweep = <<>>
    /\ cell_db' = Commit(cell_db, gc.txn)
    /\ saved' = {}
    /\ sloc' = [sloc EXCEPT !.clean = (spc # "apply")]
    /\ gc' = [gc EXCEPT !.pc = "drop", !.result = "ok", !.count = Len(gc.txn),
                        !.removed = cell_db \ Commit(cell_db, gc.txn)]
    /\ UNCHANGED <<shardstate_db, cells, inst, held, tpc, tloc, spc, gc_generation>>
    /\ UNCHANGED <<pkgVars, arcVars, idxVars, auxVars>>

\* collect: drop(marked), then the result of sweep is returned
GcDropMarked ==
    /\ gc.pc = "drop"
    /\ LET d == DropUnheld(inst, cells, Roots(held, tloc, {}))
       IN /\ inst' = d.inst
          /\ cells' = d.cells
    /\ gc' = [gc EXCEPT !.pc = "idle", !.marked = {}]
    /\ UNCHANGED <<cell_db, shardstate_db, held, tpc, tloc, spc, sloc, gc_generation, saved>>
    /\ UNCHANGED <<pkgVars, arcVars, idxVars, auxVars>>

RECURSIVE LoadEach(_, _)
\* load_cell of every cell of q in turn
LoadEach(h, q) == IF q = <<>> THEN h ELSE LoadEach(LoadCell(h, Head(q)), Tail(q))

\* a store the node has filled before a collect starts: the states of I have
\* been put, none has been collected, and a reader holds the Arcs that
\* load_cell returned for the cells of H
InitStored ==
    /\ \E I \in SUBSET StateIds :
          /\ shardstate_db = [st \in StateIds |-> IF st \in I THEN RootOf(st) ELSE NoCell]
          /\ cell_db = UNION {ReachCells(RootOf(st)) : st \in I}
          /\ saved = {RootOf(st) : st \in I}
          /\ \E H \in SUBSET (UNION {ReachCells(RootOf(st)) : st \in I}) :
                /\ Cardinality(H) <= MaxHeld
                /\ LET h == LoadEach(Heap([i \in InstIds |-> NoInst],
                                          [c \in CellIds |-> 0], <<>>),
                                     SelectSeq(CellSeq, LAMBDA c : c \in H))
                   IN /\ inst = h.inst
                      /\ cells = h.cells
                      /\ held = [t \in Threads |-> {h.cells[c] : c \in H}]
    /\ tpc = [t \in Threads |-> "idle"]
    /\ tloc = [t \in Threads |-> ThreadLocals]
    /\ spc = "idle"
    /\ sloc = SaverLocals
    /\ gc = GcIdle
    /\ gc_generation = 0

\* GC::collect alone, on a store no put and no reader touches meanwhile
NextGc ==
    \/ GcScan
    \/ GcScanLate
    \/ GcScanFail
    \/ GcMark
    \/ GcMarkFail
    \/ GcSweepRoot
    \/ GcSweepRootFail
    \/ GcCommit
    \/ GcCommitFail
    \/ GcDropMarked

\* the writers of the cell DB alone: ShardStateDb::put and GC::collect
NextSave ==
    \/ \E st \in StateIds : PutSave(st)
    \/ PutApply
    \/ PutIndex
    \/ GcScan
    \/ GcScanLate
    \/ GcScanFail
    \/ GcMark
    \/ GcMarkFail
    \/ GcSweepRoot
    \/ GcSweepRootFail
    \/ GcCommit
    \/ GcCommitFail
    \/ GcDropMarked

\* the node puts the state of a block once: put for a state the index does not hold
PutNew(st) ==
    /\ shardstate_db[st] = NoCell
    /\ PutSave(st)

\* the readers of the cell DB alone: load_cell, reference and drop on a thread,
\* with ShardStateDb::put filling the store
NextLoad ==
    \/ \E st \in StateIds : PutNew(st)
    \/ \E st \in StateIds : PutSaveFail(st)
    \/ PutApply
    \/ PutIndex
    \/ \E t \in Threads, st \in StateIds : ThreadLoadCell(t, RootOf(st))
    \/ \E t \in Threads, r \in InstIds, i \in 1..2 : ThreadReference(t, r, i)
    \/ \E t \in Threads : ThreadDbRead(t)
    \/ \E t \in Threads : ThreadCacheInsert(t)
    \/ \E t \in Threads, r \in InstIds : ThreadDrop(t, r)

NextBoc ==
    \/ \E st \in StateIds : PutNew(st)
    \/ PutApply
    \/ PutIndex
    \/ \E t \in Threads, st \in StateIds : ThreadLoadCell(t, RootOf(st))
    \/ \E t \in Threads, r \in InstIds, i \in 1..2 : ThreadReference(t, r, i)
    \/ \E t \in Threads : ThreadDbRead(t)
    \/ \E t \in Threads : ThreadCacheInsert(t)
    \/ \E t \in Threads, r \in InstIds : ThreadDrop(t, r)
    \/ GcScan
    \/ GcMark
    \/ GcSweepRoot
    \/ GcCommit
    \/ GcDropMarked

(***************************************************************************)
(*                               BLOCK INDEX                               *)
(***************************************************************************)

\* ---- bounds of the block index model
MaxEntries == 3
MaxSeqNo == 4

\* the blocks of the shard handed to add_handle, named by their seq_no
IndexBlocks == 1..MaxSeqNo
seq_no(b) == b
\* block_meta.gen_lt() and block_meta.gen_utime() of a block: both grow with
\* the seq_no inside a shard
gen_lt(b) == 2 * b
gen_utime(b) == 2 * b + 1

MAX_SPLIT_DEPTH == 60
\* the prefix length of the shard of the blocks
ShardPrefixLen == 0

\* LtDesc::with_values
LtDesc(first_index, last_index, last_seq_no, last_lt, last_unix_time) ==
    [first_index |-> first_index, last_index |-> last_index,
     last_seq_no |-> last_seq_no, last_lt |-> last_lt,
     last_unix_time |-> last_unix_time]

\* LtDbEntry::with_values
LtDbEntry(b) == [block_id_ext |-> b, lt |-> gen_lt(b), unix_time |-> gen_utime(b)]

\* lt_db.put_value(&lt_key, &lt_entry)
PutValue(db, index, entry) ==
    IF index \in DOMAIN db THEN [db EXCEPT ![index] = entry]
    ELSE [k \in 1..index |-> IF k = index THEN entry ELSE db[k]]

QueryKinds == {"lt", "ut", "seq_no"}
\* the queries: every key of a block, the values between and one beyond
Queries == 0..(gen_utime(MaxSeqNo) + 1)

\* Ord::cmp
Cmp(a, b) == IF a < b THEN "Less" ELSE IF a > b THEN "Greater" ELSE "Equal"

\* compare_desc of get_block_by_lt / get_block_by_ut / get_block_by_seq_no
CompareDesc(kind, q, desc) ==
    IF kind = "lt" THEN Cmp(q, desc.last_lt)
    ELSE IF kind = "ut" THEN Cmp(q, desc.last_unix_time)
    ELSE Cmp(q, desc.last_seq_no)

\* compare_lt_db of get_block_by_lt / get_block_by_ut / get_block_by_seq_no
CompareLtDb(kind, q, entry) ==
    IF kind = "lt" THEN Cmp(q, entry.lt)
    ELSE IF kind = "ut" THEN Cmp(q, entry.unix_time)
    ELSE Cmp(q, seq_no(entry.block_id_ext))

\* Option::None of a BlockIdExt, and the answer 'Block not found'
NoBlock == 0
\* the answer when lt_db.get_value fails
IndexError == -1

RECURSIVE SearchKeepRight(_, _, _, _, _, _, _)
\* the binary search that forgets the entry to the right of the query
SearchKeepRight(kind, q, lb, rb, last_index, left, right) ==
    IF ~(rb > lb) THEN [hit |-> NoBlock, left |-> left, right |-> right]
    ELSE LET index == lb + (rb - lb) \div 2
         IN IF last_index = index
            THEN [hit |-> NoBlock, left |-> left, right |-> right]
            ELSE IF index \notin DOMAIN lt_db
            THEN [hit |-> IndexError, left |-> left, right |-> right]
            ELSE LET entry == lt_db[index]
                     result == entry.block_id_ext
                     c == CompareLtDb(kind, q, entry)
                 IN IF c = "Less" THEN SearchKeepRight(kind, q, lb, index, index, left, right)
                    ELSE IF c = "Greater" THEN SearchKeepRight(kind, q, index, rb, index, result, right)
                    ELSE [hit |-> result, left |-> left, right |-> right]

RECURSIVE Search(_, _, _, _, _, _, _)
\* get_block: the binary search over the indexes of one shard; hit is the
\* block returned from inside the loop
Search(kind, q, lb, rb, last_index, left, right) ==
    IF ~(rb > lb) THEN [hit |-> NoBlock, left |-> left, right |-> right]
    ELSE LET index == lb + (rb - lb) \div 2
         IN IF last_index = index
            THEN [hit |-> NoBlock, left |-> left, right |-> right]
            ELSE IF index \notin DOMAIN lt_db
            THEN [hit |-> IndexError, left |-> left, right |-> right]
            ELSE LET entry == lt_db[index]
                     result == entry.block_id_ext
                     c == CompareLtDb(kind, q, entry)
                 IN IF c = "Less" THEN Search(kind, q, lb, index, index, left, result)
                    ELSE IF c = "Greater" THEN Search(kind, q, index, rb, index, result, right)
                    ELSE [hit |-> result, left |-> left, right |-> right]

\* lt_desc_db.try_get_value(&shard_key) for the shard of prefix length len
DescOf(len) == IF len = ShardPrefixLen THEN lt_desc ELSE <<>>

\* get_block: what follows the loop over the prefix lengths
AfterLoop(exact, block_id_opt) ==
    IF ~exact /\ block_id_opt # NoBlock THEN block_id_opt ELSE NoBlock

RECURSIVE GetBlockFrom(_, _, _, _, _, _, _)
\* get_block: the loop `for len in 0..=MAX_SPLIT_DEPTH`, from len on
GetBlockFrom(kind, q, exact, len, found, block_id_opt, max_left_seq_no) ==
    IF len > MAX_SPLIT_DEPTH THEN AfterLoop(exact, block_id_opt)
    ELSE IF DescOf(len) = <<>>
    THEN IF found THEN AfterLoop(exact, block_id_opt)
         ELSE GetBlockFrom(kind, q, exact, len + 1, found, block_id_opt, max_left_seq_no)
    ELSE LET d == DescOf(len)[1]
         IN IF CompareDesc(kind, q, d) = "Greater"
            THEN GetBlockFrom(kind, q, exact, len + 1, TRUE, block_id_opt, max_left_seq_no)
            ELSE LET s == Search(kind, q, d.first_index, d.last_index + 1,
                                 d.last_index + 2, NoBlock, NoBlock)
                     b == IF s.right = NoBlock THEN block_id_opt
                          ELSE IF block_id_opt = NoBlock THEN s.right
                          ELSE IF seq_no(block_id_opt) > seq_no(s.right) THEN s.right
                          ELSE block_id_opt
                     m == IF s.left # NoBlock /\ max_left_seq_no < seq_no(s.left)
                          THEN seq_no(s.left) ELSE max_left_seq_no
                 IN IF s.hit # NoBlock THEN s.hit
                    ELSE IF b # NoBlock /\ seq_no(b) = m + 1
                    THEN IF ~exact THEN b ELSE NoBlock
                    ELSE GetBlockFrom(kind, q, exact, len + 1, TRUE, b, m)

\* get_block_by_lt, get_block_by_ut (exact = false), get_block_by_seq_no (true)
GetBlock(kind, q) == GetBlockFrom(kind, q, kind = "seq_no", 0, FALSE, NoBlock, 0)

NoAdd == [block |-> NoBlock, result |-> "none"]
NoQuery == [kind |-> "none", q |-> 0, block |-> NoBlock]

InitIdx ==
    /\ lt_desc = <<>>
    /\ lt_db = <<>>
    /\ lt_shard_db = {}
    /\ total_shards = 0
    /\ ares = NoAdd
    /\ qres = NoQuery

\* BlockIndexDb::add_handle(block_id, block_meta), under the write lock of
\* lt_desc_db: the entry is put at last_index + 1 and the descriptor rewritten
\* with the block's seq_no, lt and unix time; a shard seen for the first time
\* is added to lt_shard_db and counted in the status
add_handle(b) ==
    /\ Len(lt_db) < MaxEntries
    /\ LET add_shard == lt_desc = <<>>
           desc == IF add_shard THEN LtDesc(1, 0, 0, 0, 0) ELSE lt_desc[1]
           shard_index == total_shards
           index == desc.last_index + 1
       IN /\ lt_db' = PutValue(lt_db, index, LtDbEntry(b))
          /\ lt_desc' = <<LtDesc(desc.first_index, index, seq_no(b), gen_lt(b),
                                 gen_utime(b))>>
          /\ IF add_shard
             THEN /\ lt_shard_db' = lt_shard_db \cup {<<shard_index, ShardPrefixLen>>}
                  /\ total_shards' = shard_index + 1
             ELSE UNCHANGED <<lt_shard_db, total_shards>>
    /\ ares' = [block |-> b, result |-> "ok"]
    /\ qres' = NoQuery
    /\ UNCHANGED <<pkgVars, arcVars, bocVars, auxVars>>

\* get_block_by_lt / get_block_by_ut / get_block_by_seq_no called with q
get_block(kind, q) ==
    /\ qres' = [kind |-> kind, q |-> q, block |-> GetBlock(kind, q)]
    /\ UNCHANGED <<lt_desc, lt_db, lt_shard_db, total_shards, ares>>
    /\ UNCHANGED <<pkgVars, arcVars, bocVars, auxVars>>

NextIdx ==
    \/ \E b \in IndexBlocks : add_handle(b)
    \/ \E kind \in QueryKinds, q \in Queries : get_block(kind, q)

(***************************************************************************)
(*                              BLOCK HANDLE                               *)
(***************************************************************************)

\* the callers of set_* on one block handle
Setters == {"s1", "s2", "s3"}

\* set_data_inited, set_proof_inited, set_moved_to_archive
SetFlags == {FLAG_DATA, FLAG_PROOF, FLAG_MOVED_TO_ARCHIVE}

NoFlag == 0

SetterLocals == [flag |-> NoFlag, ret |-> FALSE]

InitHdl ==
    /\ hflags = 0
    /\ hpc = [s \in Setters |-> "idle"]
    /\ hloc = [s \in Setters |-> SetterLocals]

\* set_data_inited() and the like: the call of set_flags(FLAG_X)
SetCall(s, f) ==
    /\ hpc[s] = "idle"
    /\ hpc' = [hpc EXCEPT ![s] = "set_flags"]
    /\ hloc' = [hloc EXCEPT ![s].flag = f]
    /\ UNCHANGED hflags
    /\ UNCHANGED <<pkgVars, arcVars, bocVars, idxVars, extVars, opnVars, slcVars, metVars>>

\* a set_flags that stores the flag instead of or-ing it in
set_flags_store(s) ==
    /\ hpc[s] = "set_flags"
    /\ hflags' = hloc[s].flag
    /\ hloc' = [hloc EXCEPT ![s].ret = HasFlag(hflags, hloc[s].flag)]
    /\ hpc' = [hpc EXCEPT ![s] = "done"]
    /\ UNCHANGED <<pkgVars, arcVars, bocVars, idxVars, extVars, opnVars, slcVars, metVars>>

\* set_flags: flags().fetch_or(flags, SeqCst) & flags == flags
set_flags(s) ==
    /\ hpc[s] = "set_flags"
    /\ hflags' = OrFlag(hflags, hloc[s].flag)
    /\ hloc' = [hloc EXCEPT ![s].ret = HasFlag(hflags, hloc[s].flag)]
    /\ hpc' = [hpc EXCEPT ![s] = "done"]
    /\ UNCHANGED <<pkgVars, arcVars, bocVars, idxVars, extVars, opnVars, slcVars, metVars>>

NextHdl ==
    \/ \E s \in Setters : \E f \in SetFlags : SetCall(s, f)
    \/ \E s \in Setters : set_flags(s)

(***************************************************************************)
(*                           OPENING A PACKAGE                             *)
(***************************************************************************)

\* ---- bound of the files found on disk
MaxFileLen == 5

\* the bytes of the magic and a byte that is none of them
FileBytes == {1, 221, 143, 174, 0}

Missing == [exists |-> FALSE, bytes |-> <<>>]

DiskFiles ==
    {Missing} \cup {[exists |-> TRUE, bytes |-> b] : b \in SeqsUpTo(FileBytes, MaxFileLen)}

NotOpened ==
    [state |-> "none", read_only |-> FALSE, create |-> FALSE, before |-> Missing,
     size |-> 0, error |-> ""]

\* file.write(bytes) at position pos
WriteAt(b, pos, bytes) ==
    [i \in 1..(IF Len(b) > pos + Len(bytes) THEN Len(b) ELSE pos + Len(bytes)) |->
        IF i > pos /\ i <= pos + Len(bytes) THEN bytes[i - pos] ELSE b[i]]

\* a read_header that looks at the first byte of the magic only
ReadHeaderFirstByte(b) ==
    IF Len(b) < PKG_HEADER_SIZE THEN "Package file read failed"
    ELSE IF b[1] # PKG_HEADER_MAGIC[1] THEN "Package file header mismatch"
    ELSE ""

\* read_header: read_exact of 4 bytes, u32::from_le_bytes(buf) != PKG_HEADER_MAGIC
ReadHeader(b) ==
    IF Len(b) < PKG_HEADER_SIZE THEN "Package file read failed"
    ELSE IF SubSeq(b, 1, PKG_HEADER_SIZE) # PKG_HEADER_MAGIC THEN "Package file header mismatch"
    ELSE ""

\* open_file_ext: OpenOptions .read(true) .write(!read_only || create)
\* .create(create): a missing file is created empty, or the open fails
OpenFileExt(d, read_only, create) ==
    IF d.exists THEN [ok |-> TRUE, disk |-> d]
    ELSE IF create THEN [ok |-> TRUE, disk |-> [exists |-> TRUE, bytes |-> <<>>]]
    ELSE [ok |-> FALSE, disk |-> d]

\* Package::size() of the package an open has returned
SizeOf(o) == o.size - PKG_HEADER_SIZE

InitOpn ==
    /\ disk = Missing
    /\ opened = NotOpened

\* Package::open(path, read_only, create)
Open(read_only, create) ==
    /\ opened.state = "none"
    /\ LET f == OpenFileExt(disk, read_only, create)
           len == Len(f.disk.bytes)
           call == [NotOpened EXCEPT !.read_only = read_only, !.create = create,
                                     !.before = disk]
       IN IF ~f.ok
          THEN /\ opened' = [call EXCEPT !.state = "err", !.error = "open failed"]
               /\ disk' = f.disk
          ELSE IF len < PKG_HEADER_SIZE
          THEN IF ~create
               THEN /\ opened' = [call EXCEPT !.state = "err",
                                              !.error = "Package file is too short"]
                    /\ disk' = f.disk
               ELSE /\ disk' = [f.disk EXCEPT !.bytes = WriteAt(@, 0, PKG_HEADER_MAGIC)]
                    /\ opened' = [call EXCEPT !.state = "ok", !.size = PKG_HEADER_SIZE]
          ELSE /\ disk' = f.disk
               /\ opened' = IF ReadHeader(f.disk.bytes) # ""
                            THEN [call EXCEPT !.state = "err",
                                              !.error = ReadHeader(f.disk.bytes)]
                            ELSE [call EXCEPT !.state = "ok", !.size = len]
    /\ UNCHANGED <<pkgVars, arcVars, bocVars, idxVars, extVars, hdlVars, slcVars, metVars>>

\* the Package, or the error, is dropped; the path can be opened again
Close ==
    /\ opened.state # "none"
    /\ opened' = NotOpened
    /\ UNCHANGED disk
    /\ UNCHANGED <<pkgVars, arcVars, bocVars, idxVars, extVars, hdlVars, slcVars, metVars>>

NextOpn ==
    \/ \E read_only \in BOOLEAN : \E create \in BOOLEAN : Open(read_only, create)
    \/ Close

(***************************************************************************)
(*                             ARCHIVE SLICE                               *)
(***************************************************************************)

\* the entry ids handed to add_file, and the keys their hashes fall on
SliceIds == {1, 2, 3}
HashKeys == {1, 2, 3}

\* PackageOffsetKey::from_entry_type: the 64-bit DefaultHasher value of the
\* entry id.  The hash is some function of the id; the ids (two 256-bit
\* hashes among their fields) outnumber the keys, so it need not be injective.
Hashers == [SliceIds -> HashKeys]
PackageOffsetKey(id) == hasher[id]

\* the package entry of an id: its file name and its data
SliceEntry(id) == [filename |-> <<96 + id>>, data |-> <<id>>]

NoOffset == -1

NoAddFile == [id |-> 0, repeat |-> FALSE]

InitSlc ==
    /\ hasher = [id \in SliceIds |-> id]
    /\ offsets_db = [k \in HashKeys |-> NoOffset]
    /\ slice_pkg = PKG_HEADER_MAGIC
    /\ added = {}
    /\ last_add = NoAddFile

\* ArchiveSlice::add_file(block, entry_id, data): idempotent return when the
\* offset index has the key; otherwise append to the package and put the
\* offset under the key
SliceAdd(id) ==
    /\ added' = added \cup {id}
    /\ last_add' = [id |-> id, repeat |-> id \in added]
    /\ IF offsets_db[PackageOffsetKey(id)] # NoOffset
       THEN UNCHANGED <<offsets_db, slice_pkg>>
       ELSE /\ slice_pkg' = slice_pkg \o EntryHeader(SliceEntry(id)) \o EntryBody(SliceEntry(id))
            /\ offsets_db' = [offsets_db EXCEPT ![PackageOffsetKey(id)] =
                                  Len(slice_pkg) - PKG_HEADER_SIZE]
    /\ UNCHANGED hasher
    /\ UNCHANGED <<pkgVars, arcVars, bocVars, idxVars, extVars, hdlVars, opnVars, metVars>>

NextSlc == \E id \in SliceIds : SliceAdd(id)

(***************************************************************************)
(*                               BLOCK META                                *)
(***************************************************************************)

\* values of the u32 fields: every byte of the word is used by one of them
\* (the top bit of a word is beyond the integers of the checker)
U32s == {0, 1, 258, 2147483647}

\* values of the u64 field gen_lt, as its low and high 32-bit words
U64s == {[lo |-> 0, hi |-> 0], [lo |-> 258, hi |-> 0], [lo |-> 1, hi |-> 2147483647]}

BlockMetas ==
    [flags : U32s, gen_utime : {0, 258}, gen_lt : U64s,
     masterchain_ref_seq_no : {0, 2147483647},
     fetched : BOOLEAN, handle_stored : BOOLEAN, archived : BOOLEAN]

\* BlockMeta::default()
DefaultMeta ==
    [flags |-> 0, gen_utime |-> 0, gen_lt |-> [lo |-> 0, hi |-> 0],
     masterchain_ref_seq_no |-> 0,
     fetched |-> FALSE, handle_stored |-> FALSE, archived |-> FALSE]

\* u64::to_le_bytes and read_le_u64
LE64(w) == LE32(w.lo) \o LE32(w.hi)
FromLE64(b, p) == [lo |-> FromLE32(b, p), hi |-> FromLE32(b, p + 4)]

\* `b as u8`
BoolByte(b) == IF b THEN 1 ELSE 0

\* a serialize that writes gen_lt before gen_utime
SerializeLtFirst(m) ==
    LE32(m.flags) \o LE64(m.gen_lt) \o LE32(m.gen_utime)
        \o LE32(m.masterchain_ref_seq_no)
        \o <<BoolByte(m.fetched)>> \o <<BoolByte(m.archived)>>

\* <BlockMeta as Serializable>::serialize
Serialize(m) ==
    LE32(m.flags) \o LE32(m.gen_utime) \o LE64(m.gen_lt)
        \o LE32(m.masterchain_ref_seq_no)
        \o <<BoolByte(m.fetched)>> \o <<BoolByte(m.archived)>>

NoMeta == [ok |-> FALSE, meta |-> DefaultMeta]

\* <BlockMeta as Serializable>::deserialize: the reads in their order, an
\* error when the bytes end early, then BlockMeta::with_data
Deserialize(b) ==
    IF Len(b) < 22 THEN NoMeta
    ELSE [ok |-> TRUE,
          meta |-> [flags |-> FromLE32(b, 0),
                    gen_utime |-> FromLE32(b, 4),
                    gen_lt |-> FromLE64(b, 8),
                    masterchain_ref_seq_no |-> FromLE32(b, 16),
                    fetched |-> b[21] # 0,
                    handle_stored |-> FALSE,
                    archived |-> b[22] # 0]]

InitMet ==
    /\ bmeta = DefaultMeta
    /\ bbytes = <<>>
    /\ bback = NoMeta

\* serialize(&meta, &mut writer)
SerializeMeta ==
    /\ bbytes = <<>>
    /\ bbytes' = Serialize(bmeta)
    /\ UNCHANGED <<bmeta, bback>>
    /\ UNCHANGED <<pkgVars, arcVars, bocVars, idxVars, extVars, hdlVars, opnVars, slcVars>>

\* BlockMeta::deserialize(&mut reader) on the bytes written
DeserializeMeta ==
    /\ bbytes # <<>>
    /\ ~bback.ok
    /\ bback' = Deserialize(bbytes)
    /\ UNCHANGED <<bmeta, bbytes>>
    /\ UNCHANGED <<pkgVars, arcVars, bocVars, idxVars, extVars, hdlVars, opnVars, slcVars>>

NextMet == SerializeMeta \/ DeserializeMeta

(***************************************************************************)
(*                           Package::truncate                             *)
(***************************************************************************)

NoTruncate == [pc |-> "idle", new_size |-> 0]

InitTrn == trunc = NoTruncate

\* the sizes recovery truncates to: 0 and the ends the continuations recorded
TruncateSizes == {0} \cup {r.new_size : r \in offsets}

\* file.set_len(n): the file is cut, or extended with zero bytes
SetLen(b, n) == [i \in 1..n |-> IF i <= Len(b) THEN b[i] ELSE 0]

\* truncate(size): new_size = PKG_HEADER_SIZE + size; self.size.store(new_size)
TruncateStore ==
    /\ trunc.pc = "idle"
    /\ \E n \in TruncateSizes :
        /\ trunc' = [pc |-> "set_len", new_size |-> PKG_HEADER_SIZE + n]
        /\ size' = PKG_HEADER_SIZE + n
    /\ UNCHANGED <<file, write_mutex, apc, aentry, aoffset, offsets, observed>>
    /\ UNCHANGED <<arcVars, bocVars, idxVars, hdlVars, opnVars, slcVars, metVars, extButTrn>>

\* truncate: open_file, write_mutex.lock(), file.set_len(new_size), the guard
\* is dropped at the end of the block
TruncateSetLen ==
    /\ trunc.pc = "set_len"
    /\ write_mutex = "free"
    /\ file' = SetLen(file, trunc.new_size)
    /\ trunc' = [trunc EXCEPT !.pc = "done"]
    /\ UNCHANGED <<size, write_mutex, apc, aentry, aoffset, offsets, observed>>
    /\ UNCHANGED <<arcVars, bocVars, idxVars, hdlVars, opnVars, slcVars, metVars, extButTrn>>

\* append_entry and truncate on one package
NextTrn ==
    \/ NextPkg
    \/ TruncateStore
    \/ TruncateSetLen

(***************************************************************************)
(*                BLOCK HANDLE DB OVER THE BLOCK INDEX                     *)
(***************************************************************************)

\* the BlockMeta instances in memory at once
MaxMetas == 2
MetaIds == 1..MaxMetas
\* the concurrent callers of BlockHandleDb::put
Putters == {"p1", "p2"}
IndexShards == {"sa", "sb"}
\* the block ids put: two blocks of one shard and one of another
HandleKeys ==
    {[shard |-> "sa", seq_no |-> 1], [shard |-> "sa", seq_no |-> 2],
     [shard |-> "sb", seq_no |-> 1]}

NoDesc == <<>>
\* a slot that holds no BlockMeta; added is history: the add_handle calls
\* made with the instance
NoMetaInst ==
    [made |-> FALSE, key |-> [shard |-> "sa", seq_no |-> 1], handle_stored |-> FALSE,
     from_db |-> FALSE, added |-> 0]
PutLocals == [meta |-> 0, desc |-> LtDesc(1, 0, 0, 0, 0), add_shard |-> FALSE,
              shard_index |-> 0]

InitHdb ==
    /\ handle_db = {}
    /\ metas = [m \in MetaIds |-> NoMetaInst]
    /\ ppc = [p \in Putters |-> "idle"]
    /\ ploc = [p \in Putters |-> PutLocals]
    /\ desc_lock = "free"
    /\ lt_desc_db = [sh \in IndexShards |-> NoDesc]
    /\ lt_entries = [sh \in IndexShards |-> <<>>]
    /\ shard_list = <<>>
    /\ status = 0

FreeMeta == CHOOSE m \in MetaIds : ~metas[m].made /\ \A n \in MetaIds : n < m => metas[n].made

\* BlockMeta::with_data for the block k: handle_stored is false
NewMeta(k) ==
    /\ \E m \in MetaIds : ~metas[m].made
    /\ metas' = [metas EXCEPT ![FreeMeta] =
                    [made |-> TRUE, key |-> k, handle_stored |-> FALSE,
                     from_db |-> FALSE, added |-> 0]]
    /\ UNCHANGED <<handle_db, ppc, ploc, desc_lock, lt_desc_db, lt_entries, shard_list, status>>
    /\ UNCHANGED <<pkgVars, arcVars, bocVars, idxVars, hdlVars, opnVars, slcVars, metVars,
                   extButHdb>>

\* BlockHandleDb::get / try_get of a stored key: deserialize_block_meta_stored,
\* which is from_slice followed by set_handle_stored
Get(k) ==
    /\ k \in handle_db
    /\ \E m \in MetaIds : ~metas[m].made
    /\ metas' = [metas EXCEPT ![FreeMeta] =
                    [made |-> TRUE, key |-> k, handle_stored |-> TRUE,
                     from_db |-> TRUE, added |-> 0]]
    /\ UNCHANGED <<handle_db, ppc, ploc, desc_lock, lt_desc_db, lt_entries, shard_list, status>>
    /\ UNCHANGED <<pkgVars, arcVars, bocVars, idxVars, hdlVars, opnVars, slcVars, metVars,
                   extButHdb>>

\* BlockHandleDb::put(key, meta) is called with the instance m
Put(p, m) ==
    /\ ppc[p] = "idle"
    /\ metas[m].made
    /\ ppc' = [ppc EXCEPT ![p] = "db_put"]
    /\ ploc' = [ploc EXCEPT ![p] = [PutLocals EXCEPT !.meta = m]]
    /\ UNCHANGED <<handle_db, metas, desc_lock, lt_desc_db, lt_entries, shard_list, status>>
    /\ UNCHANGED <<pkgVars, arcVars, bocVars, idxVars, hdlVars, opnVars, slcVars, metVars,
                   extButHdb>>

\* put: self.db.put(key, meta.to_vec()?.as_slice())?
PutDb(p) ==
    /\ ppc[p] = "db_put"
    /\ handle_db' = handle_db \cup {metas[ploc[p].meta].key}
    /\ ppc' = [ppc EXCEPT ![p] = "cas"]
    /\ UNCHANGED <<metas, ploc, desc_lock, lt_desc_db, lt_entries, shard_list, status>>
    /\ UNCHANGED <<pkgVars, arcVars, bocVars, idxVars, hdlVars, opnVars, slcVars, metVars,
                   extButHdb>>

\* a put that reads handle_stored and goes on to add_handle whatever it reads
PutSetStoredIgnored(p) ==
    /\ ppc[p] = "cas"
    /\ LET m == ploc[p].meta
       IN /\ metas' = [metas EXCEPT ![m].handle_stored = TRUE,
                                    ![m].added = IF @ < 2 THEN @ + 1 ELSE @]
          /\ ppc' = [ppc EXCEPT ![p] = "lock"]
    /\ UNCHANGED <<handle_db, ploc, desc_lock, lt_desc_db, lt_entries, shard_list, status>>
    /\ UNCHANGED <<pkgVars, arcVars, bocVars, idxVars, hdlVars, opnVars, slcVars, metVars,
                   extButHdb>>

\* put: `if meta.set_handle_stored() { return Ok(()) }`, where set_handle_stored
\* is compare_and_swap(false, true) and returns the value it found; on false
\* the call goes on to block_index_db.add_handle(key, meta)
PutSetStored(p) ==
    /\ ppc[p] = "cas"
    /\ LET m == ploc[p].meta
       IN IF metas[m].handle_stored
          THEN /\ ppc' = [ppc EXCEPT ![p] = "idle"]
               /\ UNCHANGED metas
          ELSE /\ metas' = [metas EXCEPT ![m].handle_stored = TRUE,
                                         ![m].added = IF @ < 2 THEN @ + 1 ELSE @]
               /\ ppc' = [ppc EXCEPT ![p] = "lock"]
    /\ UNCHANGED <<handle_db, ploc, desc_lock, lt_desc_db, lt_entries, shard_list, status>>
    /\ UNCHANGED <<pkgVars, arcVars, bocVars, idxVars, hdlVars, opnVars, slcVars, metVars,
                   extButHdb>>

\* the locals of a call that has returned: what is left is history, the
\* instance the putter's last call was made with
AfterReturn(p) == [ploc EXCEPT ![p] = [PutLocals EXCEPT !.meta = ploc[p].meta]]

\* the shard, the seq_no and the index of the entry the putter is adding
ShardOf(p) == metas[ploc[p].meta].key.shard
SeqNoOf(p) == metas[ploc[p].meta].key.seq_no
IndexOf(p) == ploc[p].desc.last_index + 1

\* an add_handle that reads the descriptor without the write lock
AddReadUnlocked(p) ==
    /\ ppc[p] = "lock"
    /\ ploc' = [ploc EXCEPT ![p] =
                  IF lt_desc_db[ShardOf(p)] # NoDesc
                  THEN [@ EXCEPT !.desc = lt_desc_db[ShardOf(p)][1]]
                  ELSE [@ EXCEPT !.add_shard = TRUE, !.shard_index = status]]
    /\ ppc' = [ppc EXCEPT ![p] = "lt_put"]
    /\ UNCHANGED <<handle_db, metas, desc_lock, lt_desc_db, lt_entries, shard_list, status>>
    /\ UNCHANGED <<pkgVars, arcVars, bocVars, idxVars, hdlVars, opnVars, slcVars, metVars,
                   extButHdb>>

\* add_handle: lt_desc_db.write(), then try_get_value(&desc_key) and, for a
\* shard with no descriptor, the total_shards of the status and
\* LtDesc::with_values(1, 0, 0, 0, 0)
AddLock(p) ==
    /\ ppc[p] = "lock"
    /\ desc_lock = "free"
    /\ desc_lock' = p
    /\ ploc' = [ploc EXCEPT ![p] =
                  IF lt_desc_db[ShardOf(p)] # NoDesc
                  THEN [@ EXCEPT !.desc = lt_desc_db[ShardOf(p)][1]]
                  ELSE [@ EXCEPT !.add_shard = TRUE, !.shard_index = status]]
    /\ ppc' = [ppc EXCEPT ![p] = "lt_put"]
    /\ UNCHANGED <<handle_db, metas, lt_desc_db, lt_entries, shard_list, status>>
    /\ UNCHANGED <<pkgVars, arcVars, bocVars, idxVars, hdlVars, opnVars, slcVars, metVars,
                   extButHdb>>

\* add_handle: self.lt_db.put_value(&lt_key, &lt_entry)? at last_index + 1
AddPutEntry(p) ==
    /\ ppc[p] = "lt_put"
    /\ lt_entries' = [lt_entries EXCEPT ![ShardOf(p)] =
                         PutValue(@, IndexOf(p), LtDbEntry(SeqNoOf(p)))]
    /\ ppc' = [ppc EXCEPT ![p] = "desc_put"]
    /\ UNCHANGED <<handle_db, metas, ploc, desc_lock, lt_desc_db, shard_list, status>>
    /\ UNCHANGED <<pkgVars, arcVars, bocVars, idxVars, hdlVars, opnVars, slcVars, metVars,
                   extButHdb>>

\* add_handle: lt_desc_db_locked.put_value(&desc_key, &lt_desc)?; with
\* add_shard false the call returns and the write guard is dropped
AddPutDesc(p) ==
    /\ ppc[p] = "desc_put"
    /\ lt_desc_db' = [lt_desc_db EXCEPT ![ShardOf(p)] =
                         <<LtDesc(ploc[p].desc.first_index, IndexOf(p), SeqNoOf(p),
                                  gen_lt(SeqNoOf(p)), gen_utime(SeqNoOf(p)))>>]
    /\ IF ploc[p].add_shard
       THEN /\ ppc' = [ppc EXCEPT ![p] = "shard_put"]
            /\ UNCHANGED <<desc_lock, ploc>>
       ELSE /\ ppc' = [ppc EXCEPT ![p] = "idle"]
            /\ ploc' = AfterReturn(p)
            /\ desc_lock' = IF desc_lock = p THEN "free" ELSE desc_lock
    /\ UNCHANGED <<handle_db, metas, lt_entries, shard_list, status>>
    /\ UNCHANGED <<pkgVars, arcVars, bocVars, idxVars, hdlVars, opnVars, slcVars, metVars,
                   extButHdb>>

\* add_handle: lt_shard_db.put_value(&shard_index.into(), shard)?; the key
\* shard_index, counted from 0, is position shard_index + 1 of shard_list
AddPutShard(p) ==
    /\ ppc[p] = "shard_put"
    /\ shard_list' = PutValue(shard_list, ploc[p].shard_index + 1, ShardOf(p))
    /\ ppc' = [ppc EXCEPT ![p] = "status_put"]
    /\ UNCHANGED <<handle_db, metas, ploc, desc_lock, lt_desc_db, lt_entries, status>>
    /\ UNCHANGED <<pkgVars, arcVars, bocVars, idxVars, hdlVars, opnVars, slcVars, metVars,
                   extButHdb>>

\* add_handle: status_db.put_value(LtDbStatus, shard_index + 1)?, Ok(()), and
\* the write guard is dropped
AddPutStatus(p) ==
    /\ ppc[p] = "status_put"
    /\ status' = ploc[p].shard_index + 1
    /\ ppc' = [ppc EXCEPT ![p] = "idle"]
    /\ desc_lock' = IF desc_lock = p THEN "free" ELSE desc_lock
    /\ ploc' = AfterReturn(p)
    /\ UNCHANGED <<handle_db, metas, lt_desc_db, lt_entries, shard_list>>
    /\ UNCHANGED <<pkgVars, arcVars, bocVars, idxVars, hdlVars, opnVars, slcVars, metVars,
                   extButHdb>>

\* one of the `?` of put and add_handle returns an error: the call ends where
\* it is and the write guard, if taken, is dropped
PutFails(p) ==
    /\ ppc[p] \in {"db_put", "lt_put", "desc_put", "shard_put", "status_put"}
    /\ ppc' = [ppc EXCEPT ![p] = "idle"]
    /\ desc_lock' = IF desc_lock = p THEN "free" ELSE desc_lock
    /\ ploc' = AfterReturn(p)
    /\ UNCHANGED <<handle_db, metas, lt_desc_db, lt_entries, shard_list, status>>
    /\ UNCHANGED <<pkgVars, arcVars, bocVars, idxVars, hdlVars, opnVars, slcVars, metVars,
                   extButHdb>>

NextHdb ==
    \/ \E k \in HandleKeys : NewMeta(k)
    \/ \E k \in HandleKeys : Get(k)
    \/ \E p \in Putters, m \in MetaIds : Put(p, m)
    \/ \E p \in Putters : PutDb(p)
    \/ \E p \in Putters : PutSetStored(p)
    \/ \E p \in Putters : AddLock(p)
    \/ \E p \in Putters : AddPutEntry(p)
    \/ \E p \in Putters : AddPutDesc(p)
    \/ \E p \in Putters : AddPutShard(p)
    \/ \E p \in Putters : AddPutStatus(p)
    \/ \E p \in Putters : PutFails(p)

(***************************************************************************)
(*                       get_block, STEP BY STEP                           *)
(***************************************************************************)

\* the last_index of the longest descriptor range
MaxLast == 2
\* the prefix lengths a descriptor is stored for: the two shortest and the longest
DescLens == {0, 1, MAX_SPLIT_DEPTH}
\* the descriptor of a shard whose entries are the blocks 1..last, as
\* add_handle leaves it; last = 0 is the empty range of LtDesc::with_values(1, 0, 0, 0, 0)
RangeDesc(last) ==
    IF last = 0 THEN LtDesc(1, 0, 0, 0, 0)
    ELSE LtDesc(1, last, seq_no(last), gen_lt(last), gen_utime(last))
GetRanges == {NoDesc} \cup {<<RangeDesc(last)>> : last \in 0..MaxLast}
\* the indexes lt_db holds no entry at: none, or one of them
GetGaps == {{}} \cup {{i} : i \in 1..MaxLast}
GetKinds == {"lt", "seq_no"}
GetQueries == 0..(gen_lt(MaxLast) + 1)

GetInputs ==
    [ranges : [DescLens -> GetRanges], gaps : GetGaps, kind : GetKinds, q : GetQueries]
NoGetInput == [ranges |-> [l \in DescLens |-> NoDesc], gaps |-> {}, kind |-> "lt", q |-> 0]

\* the locals of get_block at its first statement
GetLocals ==
    [pc |-> "scan", len |-> 0, found |-> FALSE, block_id_opt |-> NoBlock,
     max_left_seq_no |-> 0, lb |-> 0, rb |-> 0, last_index |-> 0,
     left |-> NoBlock, right |-> NoBlock, result |-> NoBlock]

InitGet ==
    /\ get_in = NoGetInput
    /\ get_st = [GetLocals EXCEPT !.pc = "returned"]

\* lt_desc_db.read().try_get_value(&shard_key) for the prefix length len
DescAt(len) == IF len \in DescLens THEN get_in.ranges[len] ELSE NoDesc

\* get_block: the head of `for len in 0..=MAX_SPLIT_DEPTH` up to `while rb > lb`
GetScan ==
    /\ get_st.pc = "scan"
    /\ get_st' =
         IF get_st.len > MAX_SPLIT_DEPTH THEN [get_st EXCEPT !.pc = "after"]
         ELSE IF DescAt(get_st.len) = NoDesc
         THEN IF get_st.found THEN [get_st EXCEPT !.pc = "after"]
              ELSE [get_st EXCEPT !.len = @ + 1]
         ELSE LET d == DescAt(get_st.len)[1]
              IN IF CompareDesc(get_in.kind, get_in.q, d) = "Greater"
                 THEN [get_st EXCEPT !.found = TRUE, !.len = @ + 1]
                 ELSE [get_st EXCEPT !.found = TRUE, !.pc = "search",
                                     !.lb = d.first_index, !.rb = d.last_index + 1,
                                     !.last_index = d.last_index + 2,
                                     !.left = NoBlock, !.right = NoBlock]
    /\ UNCHANGED get_in
    /\ UNCHANGED <<pkgVars, arcVars, bocVars, idxVars, hdlVars, opnVars, slcVars, metVars,
                   extButGet>>

\* a binary search without the `if last_index == index { break }`
GetSearchNoBreak ==
    /\ get_st.pc = "search"
    /\ get_st' =
         IF ~(get_st.rb > get_st.lb) THEN [get_st EXCEPT !.pc = "merge"]
         ELSE LET index == get_st.lb + (get_st.rb - get_st.lb) \div 2
              IN IF index \in get_in.gaps
                 THEN [get_st EXCEPT !.pc = "returned", !.result = IndexError,
                                     !.last_index = index]
                 ELSE LET entry == LtDbEntry(index)
                          result == entry.block_id_ext
                          c == CompareLtDb(get_in.kind, get_in.q, entry)
                      IN IF c = "Less"
                         THEN [get_st EXCEPT !.right = result, !.rb = index,
                                             !.last_index = index]
                         ELSE IF c = "Greater"
                         THEN [get_st EXCEPT !.left = result, !.lb = index,
                                             !.last_index = index]
                         ELSE [get_st EXCEPT !.pc = "returned", !.result = result,
                                             !.last_index = index]
    /\ UNCHANGED get_in
    /\ UNCHANGED <<pkgVars, arcVars, bocVars, idxVars, hdlVars, opnVars, slcVars, metVars,
                   extButGet>>

\* get_block: one round of `while rb > lb`: the midpoint, the break when it
\* is the midpoint of the round before, lt_db.get_value (an error when the
\* entry is missing) and the match on compare_lt_db
GetSearch ==
    /\ get_st.pc = "search"
    /\ get_st' =
         IF ~(get_st.rb > get_st.lb) THEN [get_st EXCEPT !.pc = "merge"]
         ELSE LET index == get_st.lb + (get_st.rb - get_st.lb) \div 2
              IN IF get_st.last_index = index THEN [get_st EXCEPT !.pc = "merge"]
                 ELSE IF index \in get_in.gaps
                 THEN [get_st EXCEPT !.pc = "returned", !.result = IndexError,
                                     !.last_index = index]
                 ELSE LET entry == LtDbEntry(index)
                          result == entry.block_id_ext
                          c == CompareLtDb(get_in.kind, get_in.q, entry)
                      IN IF c = "Less"
                         THEN [get_st EXCEPT !.right = result, !.rb = index,
                                             !.last_index = index]
                         ELSE IF c = "Greater"
                         THEN [get_st EXCEPT !.left = result, !.lb = index,
                                             !.last_index = index]
                         ELSE [get_st EXCEPT !.pc = "returned", !.result = result,
                                             !.last_index = index]
    /\ UNCHANGED get_in
    /\ UNCHANGED <<pkgVars, arcVars, bocVars, idxVars, hdlVars, opnVars, slcVars, metVars,
                   extButGet>>

\* get_block: what follows the binary search inside the for loop: the
\* closest block to the right, the largest seq_no to the left, and the return
\* when the two are next to each other
GetMerge ==
    /\ get_st.pc = "merge"
    /\ LET b == IF get_st.right = NoBlock THEN get_st.block_id_opt
                ELSE IF get_st.block_id_opt = NoBlock THEN get_st.right
                ELSE IF seq_no(get_st.block_id_opt) > seq_no(get_st.right) THEN get_st.right
                ELSE get_st.block_id_opt
           m == IF get_st.left # NoBlock /\ get_st.max_left_seq_no < seq_no(get_st.left)
                THEN seq_no(get_st.left) ELSE get_st.max_left_seq_no
       IN get_st' =
            IF b # NoBlock /\ seq_no(b) = m + 1
            THEN [get_st EXCEPT !.pc = "returned", !.block_id_opt = b,
                                !.max_left_seq_no = m,
                                !.result = IF get_in.kind # "seq_no" THEN b ELSE NoBlock]
            ELSE [get_st EXCEPT !.pc = "scan", !.len = @ + 1, !.block_id_opt = b,
                                !.max_left_seq_no = m]
    /\ UNCHANGED get_in
    /\ UNCHANGED <<pkgVars, arcVars, bocVars, idxVars, hdlVars, opnVars, slcVars, metVars,
                   extButGet>>

\* get_block: after the for loop
GetAfterLoop ==
    /\ get_st.pc = "after"
    /\ get_st' = [get_st EXCEPT !.pc = "returned",
                                !.result = AfterLoop(get_in.kind = "seq_no", get_st.block_id_opt)]
    /\ UNCHANGED get_in
    /\ UNCHANGED <<pkgVars, arcVars, bocVars, idxVars, hdlVars, opnVars, slcVars, metVars,
                   extButGet>>

NextGet == GetScan \/ GetSearch \/ GetMerge \/ GetAfterLoop

(***************************************************************************)
(*                             SPECIFICATIONS                              *)
(***************************************************************************)

InitExt == InitTrn /\ InitHdb /\ InitGet

InitAux == InitHdl /\ InitOpn /\ InitSlc /\ InitMet /\ InitExt

\* the start of Package::open: any file may be at the path
InitAnyFile ==
    /\ InitPkg /\ InitArc /\ InitBoc /\ InitIdx /\ InitHdl /\ InitSlc /\ InitMet /\ InitExt
    /\ flags = [b \in Blocks |-> 0]
    /\ disk \in DiskFiles
    /\ opened = NotOpened

Init == InitPkg /\ InitArc /\ InitBoc /\ InitIdx /\ InitAux

\* the start with no key block among the blocks
InitPlain == Init /\ flags = [b \in Blocks |-> 0]

SpecPkg == InitPlain /\ [][NextPkg]_vars

SpecArc == Init /\ [][NextArc]_vars

SpecBoc == InitPlain /\ [][NextBoc]_vars

SpecSave == InitPlain /\ [][NextSave]_vars

SpecLoad == InitPlain /\ [][NextLoad]_vars

InitAnyStore ==
    /\ InitPkg /\ InitArc /\ InitIdx /\ InitAux
    /\ flags = [b \in Blocks |-> 0]
    /\ InitStored
SpecGc == InitAnyStore /\ [][NextGc]_vars

SpecHdb == InitPlain /\ [][NextHdb]_vars

\* one call of get_block on any of the descriptor tables, run to its end: the
\* calling thread is not stopped for ever
InitAnyQuery ==
    /\ InitPkg /\ InitArc /\ InitBoc /\ InitIdx
    /\ InitHdl /\ InitOpn /\ InitSlc /\ InitMet /\ InitTrn /\ InitHdb
    /\ flags = [b \in Blocks |-> 0]
    /\ get_in \in GetInputs
    /\ get_st = GetLocals
SpecGet == InitAnyQuery /\ [][NextGet]_vars /\ WF_vars(NextGet)

SpecIdx == InitPlain /\ [][NextIdx]_vars

SpecHdl == InitPlain /\ [][NextHdl]_vars

SpecOpn == InitAnyFile /\ [][NextOpn]_vars

\* the start of an archive slice: DefaultHasher is any function of the id
InitAnyHasher ==
    /\ InitPkg /\ InitArc /\ InitBoc /\ InitIdx /\ InitHdl /\ InitOpn /\ InitMet /\ InitExt
    /\ flags = [b \in Blocks |-> 0]
    /\ hasher \in Hashers
    /\ offsets_db = [k \in HashKeys |-> NoOffset]
    /\ slice_pkg = PKG_HEADER_MAGIC
    /\ added = {}
    /\ last_add = NoAddFile

SpecSlc == InitAnyHasher /\ [][NextSlc]_vars

\* the start of a serialize: any block meta
InitAnyMeta ==
    /\ InitPkg /\ InitArc /\ InitBoc /\ InitIdx /\ InitHdl /\ InitOpn /\ InitSlc /\ InitExt
    /\ flags = [b \in Blocks |-> 0]
    /\ bmeta \in BlockMetas
    /\ bbytes = <<>>
    /\ bback = NoMeta

SpecMet == InitAnyMeta /\ [][NextMet]_vars

SpecTrn == InitPlain /\ [][NextTrn]_vars

(***************************************************************************)
(*                                 CLAIMS                                  *)
(***************************************************************************)

\* the entry a getter asks for is one the promotion of its block carries over:
\* move_to_archive takes the proof link only when the block has no proof
Promoted(g) ==
    gloc[g].kind = "prooflink" => ~is_proof_inited(gloc[g].block)

\* C1: a get_file for an entry that was staged when it was called, running
\* concurrently with the move_to_archive of its block, succeeds and returns
\* exactly the staged bytes; it never fails with not-found.
C1_GetFileNeverFails ==
    \A g \in Getters :
        (gpc[g] = "done" /\ gloc[g].staged /\ Promoted(g))
            => /\ gloc[g].result = "ok"
               /\ gloc[g].data = Payload(EntryId(gloc[g].kind, gloc[g].block))

\* the instances kept alive by the Arcs the reader threads hold
HeldInstances == ReachInst(inst, UNION {held[t] : t \in Threads})

\* C2: a collect() that commits deletes no cell-DB record of a cell of which a
\* reader thread holds a live StorageCell at the time of the sweep.
C2_NoDeleteOfHeldCell ==
    (gc.pc = "drop" /\ gc.result = "ok")
        => \A i \in HeldInstances : inst[i].cell \notin SeqToSet(gc.txn)

\* C3: after a collect() every cell reachable from a root that was in the index
\* with gen_utime + ttl >= now is still stored: the collect has deleted none of
\* them, also when it swept a root that reaches the same cell.
C3_TtlLiveTreeKept ==
    (gc.result = "ok" /\ gc.pc \in {"drop", "idle"})
        => \A st \in gc.kept : ReachCells(RootOf(st)) \cap SeqToSet(gc.txn) = {}

\* C4: the count save_as_dynamic_boc returns is the number of distinct cells
\* that were not stored before the call and that the call writes.
C4_CountIsCellsWritten ==
    spc = "apply" => sloc.count = Cardinality(sloc.diff \ cell_db)

\* C5: a save of a root that has been saved, with no GC commit since, returns 0
\* and writes nothing, so the cell DB stays as it is.
C5_SecondSaveWritesNothing ==
    (spc = "apply" /\ sloc.again) => (sloc.count = 0 /\ cell_db \cup sloc.diff = cell_db)

C5_Witness ==
    /\ spc = "apply"
    /\ sloc.again
    /\ sloc.state = "s1"
    /\ ReachCells("R") \subseteq cell_db

\* C6: after append_entry has passed offset o of entry e to its continuation,
\* read_entry(o) returns e, and the entry has made size() grow by
\* 8 + |filename| + |data|; no write has failed in the package.
C6_AppendReadRoundTrip ==
    (\A a \in Appenders : apc[a] # "failed")
        => \A r \in offsets :
            /\ ReadEntry(r.offset) = [ok |-> TRUE, entry |-> r.entry]
            /\ r.new_size = r.offset + 8 + Len(r.entry.filename) + Len(r.entry.data)

\* C7: no observer reads a size() that includes an entry whose after_append
\* continuation has not completed: what is observed never exceeds what the
\* continuations had recorded at that moment.
C7_SizeNotSeenBeforeIndex ==
    observed.size <= observed.indexed

\* the appenders whose entry is being written or has been appended
Appending == {a \in Appenders : apc[a] \in {"header", "body", "add", "after", "done"}}
EndOffset(a) == aoffset[a] + EntrySize(aentry[a])

\* C8, the state part: a size(), observed or current, that has reached the end
\* offset of an entry means the write of that entry has finished and its bytes
\* are in the file
C8_Written ==
    \A a \in Appending :
        (Size >= EndOffset(a) \/ observed.size >= EndOffset(a))
            => /\ apc[a] \in {"after", "done"}
               /\ Len(file) >= PKG_HEADER_SIZE + EndOffset(a)

\* C8, the step part: size changes only in the hands of the appender that holds
\* write_mutex and has finished its write
C8_SizeStep ==
    size' # size
        => /\ write_mutex \in Appenders
           /\ apc[write_mutex] = "add"
           /\ write_mutex' = write_mutex
           /\ size' = size + EntrySize(aentry[write_mutex])

CopiedBy(m) == {c \in history.copied : c[1] = m}
UnlinkedBy(m) == {u \in history.unlinked : u[1] = m}

\* C9: of the move_to_archive calls on one block at most one copies files and
\* at most one invokes on_success; a call that finds moving-started set returns
\* Ok(()) and copies nothing, does not invoke on_success and unlinks nothing.
C9_AtMostOneMover ==
    /\ \A b \in Blocks :
        /\ Cardinality({m \in Movers : mloc[m].block = b /\ CopiedBy(m) # {}}) <= 1
        /\ Cardinality({m \in history.invoked : mloc[m].block = b}) <= 1
    /\ \A m \in history.early :
        /\ mpc[m] = "done"
        /\ mloc[m].result = "ok"
        /\ CopiedBy(m) = {}
        /\ UnlinkedBy(m) = {}
        /\ m \notin history.invoked

C9_Witness ==
    \E m1 \in history.early, m2 \in history.invoked :
        /\ mloc[m1].block = mloc[m2].block
        /\ CopiedBy(m2) # {}
        /\ mpc[m2] = "done"

\* C10: a call unlinks a loose file only after its slice writes and on_success
\* have succeeded: after a failed copy on_success is not invoked and nothing is
\* removed; after a failed on_success nothing is removed and the call returns
\* the error.
C10_UnlinkOnlyAfterSuccess ==
    \A m \in Movers :
        /\ UnlinkedBy(m) # {}
            => /\ m \in history.invoked
               /\ m \notin history.success_failed
               /\ m \notin history.copy_failed
               /\ UnlinkedBy(m) \subseteq CopiedBy(m)
        /\ m \in history.copy_failed
            => (m \notin history.invoked /\ UnlinkedBy(m) = {} /\ mloc[m].result = "err")
        /\ m \in history.success_failed
            => /\ UnlinkedBy(m) = {}
               /\ mpc[m] = "done"
               /\ mloc[m].result = "err"

C10_Witness ==
    \E m \in history.success_failed :
        /\ mpc[m] = "done"
        /\ CopiedBy(m) # {}
        /\ \A c \in CopiedBy(m) : unapplied[c[2]] # NoFile

\* C11: a get_file called after move_to_archive(b) has completed with
\* moved_to_archive set, for an entry of b that the call copied, returns the
\* staged bytes, whichever other blocks have been promoted since: the closest
\* package for b's mc_seq_no is the package that holds b's entries.
C11_MovedEntryStaysReadable ==
    \A g \in Getters :
        (gpc[g] = "done" /\ gloc[g].moved)
            => /\ gloc[g].result = "ok"
               /\ gloc[g].data = Payload(EntryId(gloc[g].kind, gloc[g].block))

\* some slice holds the entry of kind k of block b
InSlices(b, k) ==
    k \in Kinds /\ \E pkg \in file_maps : SliceGetFile(pkg, EntryId(k, b)) # NoFile

\* C12: a block that has moved_to_archive set has its block-data entry and its
\* proof or prooflink entry in a slice: on_success is not reached for a block
\* whose data or proof/prooflink was not copied.
C12_MovedImpliesBothCopied ==
    \A b \in Blocks :
        is_moved_to_archive(b)
            => /\ InSlices(b, "block")
               /\ InSlices(b, "proof") \/ InSlices(b, "prooflink")

\* the step of sweep in which the transaction is committed and Ok(delete_count)
\* becomes the result of collect
SweepCommitted == gc.pc = "sweep" /\ gc'.pc = "drop" /\ gc'.result = "ok"

\* C13: the count returned by collect is the number of distinct cell records
\* that the call removes from the cell DB, whatever the dead trees share with
\* each other, with themselves or with a live tree.
C13_CountIsRecordsRemoved ==
    [][SweepCommitted => gc'.count = Cardinality(cell_db \ cell_db')]_vars

\* C14: the cell DB loses cell records only in the step that commits the sweep
\* transaction, and that step removes every cell the call has queued: no state
\* of a collect has some but not all of its deletions applied.
C14_DeletesAtCommitOnly ==
    [][/\ (cell_db \ cell_db' # {}) => SweepCommitted
       /\ SweepCommitted => cell_db' \cap SeqToSet(gc.txn) = {}]_vars

\* a collect has swept both states and committed the deletes of both trees
C14_Witness ==
    /\ gc.pc = "drop"
    /\ gc.result = "ok"
    /\ \A st \in StateIds : shardstate_db[st] = NoCell
    /\ {"R", "Q"} \subseteq SeqToSet(gc.txn)
    /\ cell_db = {}

\* C15: a collect that returns an error has deleted no cell record and no
\* shard-state index entry.
C15_ErrorLeavesStoreIntact ==
    gc.result = "err" => gc.swept = {} /\ gc.removed = {}

\* the instances a load_cell has read from the cell DB and not yet installed
InFlight == {tloc[t].inst : t \in Threads} \ {0}

\* C16: the cache and the live StorageCells correspond one to one: every live
\* instance outside a running load_cell is the one its CellId's cache entry
\* refers to, and every cache entry refers to a live instance of its CellId.
C16_CacheMatchesLiveCells ==
    /\ \A i \in InstIds \ InFlight :
            inst[i].cell # NoCell => cells[inst[i].cell] = i
    /\ \A c \in CellIds :
            cells[c] # 0 => inst[cells[c]].cell = c

\* a StorageCell as StorageCell::deserialize builds it
FreshCell(id) == [cell |-> id, gc_gen |-> 0, refs |-> [k \in 1..Len(Children(id)) |-> 0]]

Live(it) == {i \in InstIds : it[i].cell # NoCell}

\* load_cell(id) called in the current state and run to its end
C17_Resolves(id) ==
    LET h == Heap(inst, cells, <<>>)
        r == LoadCell(h, id)
    IN /\ cells[id] # 0
           => /\ r.err = "none"
              /\ r.ret = cells[id]
              /\ r.inst = inst
              /\ r.cells = cells
       /\ (cells[id] = 0 /\ id \in cell_db /\ FreeIds(h, id) # {})
           => /\ r.err = "none"
              /\ r.ret \notin Live(inst)
              /\ r.inst = [inst EXCEPT ![r.ret] = FreshCell(id)]
              /\ r.cells = [cells EXCEPT ![id] = r.ret]
       /\ (cells[id] = 0 /\ id \notin cell_db)
           => /\ r.err = "notfound"
              /\ r.inst = inst
              /\ r.cells = cells

\* one step of a load_cell that a thread runs while others run; the step that
\* installs the weak also stores the slot when reference() made the call, and
\* the cache is looked at after it for a direct call only
C17_Step(t) ==
    /\ (tpc[t] = "idle" /\ tpc'[t] = "db")
        => cells[tloc'[t].cell] = 0 /\ cells' = cells /\ inst' = inst
    /\ (tpc[t] = "idle" /\ tpc'[t] = "idle" /\ held'[t] # held[t])
        => Live(inst') \subseteq Live(inst)
    /\ (tpc[t] = "db" /\ tpc'[t] = "insert")
        => /\ tloc[t].cell \in cell_db
           /\ tloc'[t].inst \notin Live(inst)
           /\ inst' = [inst EXCEPT ![tloc'[t].inst] = FreshCell(tloc[t].cell)]
           /\ cells' = cells
    /\ (tpc[t] = "db" /\ tpc'[t] = "idle")
        => /\ tloc[t].cell \notin cell_db
           /\ cells' = cells /\ inst' = inst /\ held' = held
    /\ (tpc[t] = "insert" /\ tpc'[t] = "idle")
        => /\ tloc[t].parent = 0 => cells'[tloc[t].cell] = tloc[t].inst
           /\ held'[t] = held[t] \cup {tloc[t].inst}

C18_Refs(r, i) ==
    LET h == Heap(inst, cells, <<>>)
        q == Reference(h, r, i)
        q2 == Reference(q, r, i)
        child == Children(inst[r].cell)[i]
    IN /\ inst[r].refs[i] # 0
           => q.err = "none" /\ q.ret = inst[r].refs[i] /\ q.inst = inst /\ q.cells = cells
       /\ (inst[r].refs[i] = 0 /\ q.err = "none")
           => /\ q.inst[q.ret].cell = child
              /\ q.inst[r] = [inst[r] EXCEPT !.refs[i] = q.ret]
              /\ q2.err = "none" /\ q2.ret = q.ret /\ q2.inst = q.inst /\ q2.cells = q.cells

\* a slot that holds a loaded reference holds it for as long as its cell lives,
\* and a slot that becomes loaded refers to an instance of that child
C18_SlotStep(r, i) ==
    (inst[r].cell # NoCell /\ inst'[r].cell = inst[r].cell /\ i <= Len(inst[r].refs))
        => /\ inst[r].refs[i] # 0 => inst'[r].refs[i] = inst[r].refs[i]
           /\ (inst[r].refs[i] = 0 /\ inst'[r].refs[i] # 0)
               => inst'[inst'[r].refs[i]].cell = Children(inst[r].cell)[i]

\* C18: a cell read from the cell DB has every slot unloaded; the first
\* reference(i) loads child i and stores it in slot i, leaving the other slots;
\* every later reference(i) returns the instance the first one stored, with no
\* read of the cell DB.
C18_ReferenceLoadsOnce ==
    /\ [](\A t \in Threads :
            tloc[t].inst # 0 => inst[tloc[t].inst] = FreshCell(tloc[t].cell))
    /\ [](\A r \in Live(inst) : \A i \in 1..Len(inst[r].refs) : C18_Refs(r, i))
    /\ [][\A r \in InstIds : \A i \in 1..2 : C18_SlotStep(r, i)]_vars

\* a step of add_handle
AddHandleStep == ares' # ares \/ lt_db' # lt_db \/ lt_desc' # lt_desc

\* C19: appends to the block index are monotone per shard: for a shard that
\* has a descriptor, add_handle of a block whose seq_no is last_seq_no changes
\* nothing, add_handle of a lower seq_no fails and changes nothing, and
\* add_handle of a greater seq_no appends.
C19_AppendsMonotone ==
    [][(AddHandleStep /\ lt_desc # <<>>)
        => LET last == lt_desc[1].last_seq_no
               s == seq_no(ares'.block)
           IN /\ s = last => (lt_db' = lt_db /\ lt_desc' = lt_desc)
              /\ s < last => (ares'.result = "err" /\ lt_db' = lt_db /\ lt_desc' = lt_desc)
              /\ s > last => /\ ares'.result = "ok"
                             /\ lt_db' = Append(lt_db, LtDbEntry(ares'.block))
                             /\ lt_desc'[1].last_seq_no = s]_vars

\* the index holds entries of strictly increasing seq_no, lt and unix_time
Increasing ==
    /\ lt_db # <<>>
    /\ \A k \in 1..(Len(lt_db) - 1) :
        /\ seq_no(lt_db[k].block_id_ext) < seq_no(lt_db[k + 1].block_id_ext)
        /\ lt_db[k].lt < lt_db[k + 1].lt
        /\ lt_db[k].unix_time < lt_db[k + 1].unix_time

KeyOf(kind, e) ==
    IF kind = "lt" THEN e.lt ELSE IF kind = "ut" THEN e.unix_time
    ELSE seq_no(e.block_id_ext)

Stored == {lt_db[k] : k \in 1..Len(lt_db)}

\* the block of the entry with the smallest key >= q
SmallestFrom(kind, q) ==
    (CHOOSE e \in Stored :
        /\ KeyOf(kind, e) >= q
        /\ \A f \in Stored : KeyOf(kind, f) >= q => KeyOf(kind, e) <= KeyOf(kind, f)).block_id_ext

\* C20: on an index of strictly increasing entries get_block_by_lt(q) and
\* get_block_by_ut(q) answer the entry with the smallest key >= q for every q up
\* to the last key, and get_block_by_seq_no(q) answers the entry of seq_no q,
\* or 'Block not found' when there is none.
C20_GetBlockFindsEntry ==
    (Increasing /\ qres # NoQuery)
        => IF qres.kind = "seq_no"
           THEN IF \E e \in Stored : KeyOf("seq_no", e) = qres.q
                THEN qres.block = SmallestFrom("seq_no", qres.q)
                ELSE qres.block = NoBlock
           ELSE qres.q <= KeyOf(qres.kind, lt_db[Len(lt_db)])
                    => qres.block = SmallestFrom(qres.kind, qres.q)

\* three entries with a gap between the first and the second, and a query by
\* lt between their keys that is answered with the second
C20_Witness ==
    /\ Increasing
    /\ Len(lt_db) = 3
    /\ qres.kind = "lt"
    /\ lt_db[1].lt < qres.q
    /\ qres.q < lt_db[2].lt
    /\ seq_no(lt_db[1].block_id_ext) + 1 < seq_no(lt_db[2].block_id_ext)
    /\ qres.block = lt_db[2].block_id_ext

\* the bits FLAG_DATA .. FLAG_INDEXED of the flags word
FlagBits == {2 ^ i : i \in 0..14}

\* the setters of flag f whose set_* has returned
Returned(f) == {s \in Setters : hpc[s] = "done" /\ hloc[s].flag = f}

\* C21: the flags of a block handle only grow: a bit that is set stays set
\* in every later state, the flag of every set_* that has returned is set
\* whatever the other setters did meanwhile, and of the setters of one flag
\* that have returned exactly one got false (the flag was not set before).
C21_FlagsOnlyGrow ==
    /\ [][\A bit \in FlagBits : HasFlag(hflags, bit) => HasFlag(hflags', bit)]_vars
    /\ [](\A f \in SetFlags :
            Returned(f) # {} =>
                /\ HasFlag(hflags, f)
                /\ Cardinality({s \in Returned(f) : ~hloc[s].ret}) = 1)

\* two setters of one flag and a setter of another flag were inside set_*
\* together and have all returned: one false and one true for the shared flag
C21_Witness ==
    /\ Returned(FLAG_DATA) = {"s1", "s2"}
    /\ Returned(FLAG_PROOF) = {"s3"}
    /\ hloc["s1"].ret # hloc["s2"].ret
    /\ hflags = FLAG_DATA + FLAG_PROOF

\* the last open found a file of fewer than 4 bytes / with the right magic
FoundShort == opened.before.exists /\ Len(opened.before.bytes) < PKG_HEADER_SIZE
FoundMagic ==
    /\ opened.before.exists
    /\ Len(opened.before.bytes) >= PKG_HEADER_SIZE
    /\ SubSeq(opened.before.bytes, 1, 4) = <<1, 221, 143, 174>>
FoundOther ==
    /\ opened.before.exists
    /\ Len(opened.before.bytes) >= PKG_HEADER_SIZE
    /\ SubSeq(opened.before.bytes, 1, 4) # <<1, 221, 143, 174>>

\* C22: Package::open has exactly these outcomes on an existing file: shorter
\* than 4 bytes with create -> the magic 01 DD 8F AE is written and size() = 0;
\* shorter than 4 bytes without create -> "too short", file unchanged; at least
\* 4 bytes with the magic -> success, size() = length - 4, file unchanged, also
\* with create; at least 4 bytes with another header -> "header mismatch",
\* file unchanged.
C22_OpenOutcomes ==
    opened.state # "none" =>
        /\ FoundShort /\ opened.create =>
              /\ opened.state = "ok"
              /\ disk.bytes = <<1, 221, 143, 174>>
              /\ SizeOf(opened) = 0
        /\ FoundShort /\ ~opened.create =>
              /\ opened.state = "err"
              /\ opened.error = "Package file is too short"
              /\ disk = opened.before
        /\ FoundMagic =>
              /\ opened.state = "ok"
              /\ SizeOf(opened) = Len(opened.before.bytes) - 4
              /\ disk = opened.before
        /\ FoundOther =>
              /\ opened.state = "err"
              /\ opened.error = "Package file header mismatch"
              /\ disk = opened.before

\* a package with one byte after its header has been opened with create
C22_Witness ==
    /\ opened.state = "ok"
    /\ opened.create
    /\ FoundMagic
    /\ Len(disk.bytes) = 5
    /\ SizeOf(opened) = 1

\* the offsets at which the slice's package holds the entry of id
CopiesAt(id) ==
    {o \in 0..(Len(slice_pkg) - PKG_HEADER_SIZE) :
        LET r == ReadFrom(slice_pkg, PKG_HEADER_SIZE + o)
        IN r.ok /\ r.entry = SliceEntry(id)}

Bytes4(n) == <<n % 256, (n \div 256) % 256, (n \div 65536) % 256, n \div 16777216>>

\* C25: deserialize(serialize(M)) equals M on flags, gen_utime, gen_lt,
\* masterchain_ref_seq_no, fetched and archived, which are written in that
\* order as little-endian u32, u32, u64, u32, u8, u8; handle_stored is not
\* written and is false after deserialize.
C25_MetaRoundTrip ==
    /\ bbytes # <<>> =>
         bbytes = Bytes4(bmeta.flags) \o Bytes4(bmeta.gen_utime)
                    \o Bytes4(bmeta.gen_lt.lo) \o Bytes4(bmeta.gen_lt.hi)
                    \o Bytes4(bmeta.masterchain_ref_seq_no)
                    \o <<IF bmeta.fetched THEN 1 ELSE 0>>
                    \o <<IF bmeta.archived THEN 1 ELSE 0>>
    /\ bbytes # <<>> /\ bback # NoMeta =>
         /\ bback.ok
         /\ bback.meta = [bmeta EXCEPT !.handle_stored = FALSE]

\* a meta with handle_stored set and bytes in every position of its words
\* has come back from deserialize
C25_Witness ==
    /\ bback.ok
    /\ bmeta.handle_stored
    /\ bmeta.flags = 2147483647
    /\ bmeta.gen_utime = 258
    /\ bmeta.gen_lt.hi = 2147483647
    /\ bmeta.fetched /\ ~bmeta.archived

\* C26: however put (the save that skips the cells the cell DB holds, its
\* apply and its index put) and collect interleave, once both have returned
\* every indexed shard state has every cell reachable from its root in the
\* cell DB.
C26_IndexedStatesComplete ==
    (spc = "idle" /\ gc.pc = "idle") =>
        \A st \in StateIds :
            shardstate_db[st] # NoCell => ReachCells(shardstate_db[st]) \subseteq cell_db

\* the live StorageCell instances of a cell id, those inside a load_cell included
InstancesOf(c) == {i \in InstIds : inst[i].cell = c}

\* C27: at most one live StorageCell exists per CellId at any time: concurrent
\* load_cell calls for one id (direct or through reference) all get the same
\* instance, so all holders of a cell see one gc_gen stamp.
C27_OneInstancePerCell ==
    \A c \in CellIds :
        /\ Cardinality(InstancesOf(c)) <= 1
        /\ \A i, j \in InstancesOf(c) : inst[i].gc_gen = inst[j].gc_gen

\* C28: each child slot of a StorageCell is written at most once: a loaded
\* slot never changes and never returns to unloaded while its cell lives, so
\* every reference(i) on the cell returns the same instance.
C28_SlotWrittenOnce ==
    [][\A r \in InstIds :
         (inst[r].cell # NoCell /\ inst'[r].cell = inst[r].cell) =>
             \A i \in 1..Len(inst[r].refs) :
                 inst[r].refs[i] # 0 => inst'[r].refs[i] = inst[r].refs[i]]_vars

\* get_file of block b has checked moved_to_archive and has not finished its read
Reading(g, b) == gloc[g].block = b /\ gpc[g] \in {"package", "slice", "temp"}

\* C29: the temp lock of a block excludes the unlink step from its readers:
\* no loose file of a block is unlinked while a get_file call on that block is
\* between its moved_to_archive check and the end of its read.
C29_NoUnlinkWhileReading ==
    [][\A b \in Blocks : \A k \in KindsOf(b) :
         (unapplied[EntryId(k, b)] # NoFile /\ unapplied'[EntryId(k, b)] = NoFile)
             => \A g \in Getters : ~Reading(g, b)]_vars

RECURSIVE SumSizes(_)
\* the sum of the sizes of the entries of a set of continuation records
SumSizes(S) ==
    IF S = {} THEN 0
    ELSE LET r == CHOOSE x \in S : TRUE
         IN (r.new_size - r.offset) + SumSizes(S \ {r})

\* the appenders whose continuation has run
Appended == {a \in Appenders : apc[a] = "done"}

\* C30: concurrent append_entry calls on a package are serialized by the
\* append mutex: at most one call is between its lock and its continuation,
\* the continuations get pairwise distinct offsets whose entry ranges do not
\* overlap, each offset is the sum of the sizes of the entries appended before
\* it, and once every call has returned size() is the sum of the sizes of the
\* entries appended.
C30_AppendsSerialized ==
    /\ Cardinality({a \in Appenders : apc[a] \in {"header", "body", "add", "after"}}) <= 1
    /\ Cardinality(offsets) = Cardinality(Appended)
    /\ \A r, q \in offsets :
         r # q => /\ r.offset # q.offset
                  /\ r.new_size <= q.offset \/ q.new_size <= r.offset
    /\ \A r \in offsets :
         /\ r.new_size = r.offset + 8 + Len(r.entry.filename) + Len(r.entry.data)
         /\ r.offset = SumSizes({q \in offsets : q.offset < r.offset})
    /\ (\A a \in Appenders : apc[a] \in {"idle", "done", "failed"})
         => size - 4 = SumSizes(offsets)

\* both appenders have returned from append_entry: an entry of 8 bytes at
\* offset 0 and an entry of 10 bytes at offset 8
C30_Witness ==
    /\ \A a \in Appenders : apc[a] = "done"
    /\ Cardinality(offsets) = 2
    /\ \E r, q \in offsets : r.offset = 0 /\ q.offset = 8 /\ q.new_size = 18

\* no append_entry and no truncate call is in progress
PackageQuiet ==
    /\ \A a \in Appenders : apc[a] \in {"idle", "done", "failed"}
    /\ trunc.pc \in {"idle", "done"}

\* C31: whenever no append_entry or truncate is in progress the logical size
\* (size() + 4) is the length of the file, and every entry is written at the
\* position (after the 4-byte header) that its continuation is told as
\* entry_offset; also after a write that failed part-way and after truncate.
C31_SizeIsFileLength ==
    /\ [](PackageQuiet => size = Len(file))
    /\ [][\A a \in Appenders :
            (apc[a] = "header" /\ apc'[a] = "body") => Len(file) = 4 + aoffset[a]]_vars

\* C32: collect holds the strong references to the marked roots from the end
\* of mark until sweep has returned: while the sweep runs, and after its
\* commit or its failure until drop(marked), one live instance per kept root
\* is held, with every cell below it stamped, and the set of held roots
\* changes only in mark and in the final drop.
C32_MarkedHeldUntilSweepReturns ==
    /\ [](gc.pc \in {"sweep", "drop"} =>
            /\ {inst[i].cell : i \in gc.marked} = {gc.to_mark[k] : k \in 1..Len(gc.to_mark)}
            /\ \A i \in ReachInst(inst, gc.marked) :
                   inst[i].cell # NoCell /\ inst[i].gc_gen = gc.gc_gen)
    /\ [][gc'.marked # gc.marked => gc.pc \in {"mark", "drop"}]_vars

\* a sweep has committed its deletes and the marked root is still held
C32_Witness ==
    /\ gc.pc = "drop"
    /\ gc.result = "ok"
    /\ gc.count > 0
    /\ \E i \in gc.marked : inst[i].cell = "R" /\ cells["R"] = i

\* the step of collect that scans the index at time now and finds no entry dead
ScanFindsNoDead ==
    /\ gc.pc = "idle"
    /\ gc_generation' = gc_generation + 1
    /\ gc'.result # "err"
    /\ \A st \in StateIds :
          shardstate_db[st] # NoCell =>
              ~(cells[shardstate_db[st]] = 0 /\ GenUtime(st) + SHARD_STATE_TTL < gc'.gc_utime)

\* C33: when the index scan finds no shard state dead, collect returns 0 and
\* changes nothing: no cell is loaded or stamped, no transaction is opened,
\* and the cell DB, the shard-state index and the cache are unchanged.
C33_NothingDeadNothingDone ==
    [][ScanFindsNoDead =>
          /\ gc'.pc = "idle" /\ gc'.result = "ok" /\ gc'.count = 0
          /\ gc'.txn = <<>> /\ gc'.marked = {}
          /\ inst' = inst /\ cells' = cells
          /\ cell_db' = cell_db /\ shardstate_db' = shardstate_db]_vars

\* a collect over an index that holds a state within its TTL has returned 0
C33_Witness ==
    /\ gc.pc = "idle"
    /\ gc.result = "ok"
    /\ gc.gc_gen = 1
    /\ gc.to_sweep = <<>>
    /\ gc.to_mark = <<"R">>
    /\ cell_db = ReachCells("R")

\* the states the index held when the collect began, the cells the cell DB
\* held then, and the states whose root a reader kept in the cache
AtStartIndexed == {st \in StateIds : shardstate_db[st] # NoCell} \cup gc.swept
AtStartStored == cell_db \cup gc.removed
CellsBelow(S) == UNION {ReachCells(RootOf(st)) : st \in S}
RootCached(st) == \E t \in Threads : \E i \in held[t] : inst[i].cell = RootOf(st)
ShouldSweep ==
    {st \in AtStartIndexed :
        ~RootCached(st) /\ GenUtime(st) + SHARD_STATE_TTL < gc.gc_utime}

\* C34: after a successful collect on a store whose cell DB held exactly the
\* cells reachable from the indexed roots, the states swept are those with no
\* cache entry for the root and gen_utime + ttl < now, their index entries are
\* deleted, the kept entries are unchanged, every cell reachable only from
\* swept roots is deleted, and the cell DB holds exactly the cells reachable
\* from the remaining entries.
C34_CollectPostcondition ==
    /\ [][/\ shardstate_db' # shardstate_db =>
               \E st \in StateIds :
                   /\ shardstate_db[st] # NoCell
                   /\ shardstate_db' = [shardstate_db EXCEPT ![st] = NoCell]
                   /\ gc'.swept = gc.swept \cup {st}
          /\ cell_db' # cell_db =>
               /\ cell_db' \subseteq cell_db
               /\ gc.removed = {}
               /\ gc'.removed = cell_db \ cell_db'
          /\ gc.pc # "idle" => gc.swept \subseteq gc'.swept /\ gc.removed \subseteq gc'.removed
          /\ held' = held]_vars
    /\ []((/\ gc.result = "ok"
           /\ gc.pc \in {"drop", "idle"}
           /\ AtStartStored = CellsBelow(AtStartIndexed)) =>
             /\ gc.swept = ShouldSweep
             /\ \A st \in ShouldSweep : shardstate_db[st] = NoCell
             /\ \A st \in AtStartIndexed \ ShouldSweep : shardstate_db[st] = RootOf(st)
             /\ gc.removed = CellsBelow(ShouldSweep) \ CellsBelow(AtStartIndexed \ ShouldSweep)
             /\ cell_db = CellsBelow({st \in StateIds : shardstate_db[st] # NoCell}))

\* a collect has returned Ok over an index of two expired states, one of which
\* a reader holds the root of: the other is gone with the cells only it used
C34_Witness ==
    /\ gc.pc = "idle"
    /\ gc.result = "ok"
    /\ gc.gc_utime = SHARD_STATE_TTL + 2
    /\ RootCached("s2")
    /\ gc.swept = {"s1"}
    /\ shardstate_db = [st \in StateIds |-> IF st = "s2" THEN "Q" ELSE NoCell]
    /\ cell_db = {"Q", "C2", "L"}

\* the entries of the shard sh and its descriptor, LtDesc(1, 0, ..) when it has none
EntriesOf(sh) == lt_entries[sh]
DescNow(sh) == IF lt_desc_db[sh] = NoDesc THEN LtDesc(1, 0, 0, 0, 0) ELSE lt_desc_db[sh][1]
Adding(p) == ppc[p] \in {"lt_put", "desc_put"}

\* C35: under every interleaving of add_handle calls on one shard or on two,
\* each descriptor describes a contiguous range: an entry is stored at every
\* index from first_index to last_index, an append raises last_index by
\* exactly 1 (to 1 for a new shard), two appends in progress on one shard
\* never write the same index, and last_seq_no, last_lt and last_unix_time
\* are those of the entry at last_index.
C35_ShardRangeContiguous ==
    /\ [](\A sh \in IndexShards :
            lt_desc_db[sh] # NoDesc =>
                LET d == lt_desc_db[sh][1]
                IN /\ d.first_index = 1
                   /\ d.last_index >= 1
                   /\ \A i \in d.first_index..d.last_index : i \in DOMAIN EntriesOf(sh)
                   /\ seq_no(EntriesOf(sh)[d.last_index].block_id_ext) = d.last_seq_no
                   /\ EntriesOf(sh)[d.last_index].lt = d.last_lt
                   /\ EntriesOf(sh)[d.last_index].unix_time = d.last_unix_time)
    /\ [](\A p, q \in Putters :
            (p # q /\ Adding(p) /\ Adding(q) /\ ShardOf(p) = ShardOf(q)) =>
                IndexOf(p) # IndexOf(q))
    /\ [][\A sh \in IndexShards :
            lt_desc_db'[sh] # lt_desc_db[sh] =>
                lt_desc_db'[sh][1].last_index = DescNow(sh).last_index + 1]_vars

\* two putters are inside add_handle for blocks of one shard: one holds the
\* write lock and has put its entry at index 1, the other waits for the lock
C35_Witness ==
    /\ ppc["p1"] = "desc_put" /\ desc_lock = "p1"
    /\ ppc["p2"] = "lock"
    /\ ShardOf("p1") = "sa" /\ ShardOf("p2") = "sa"
    /\ SeqNoOf("p1") # SeqNoOf("p2")
    /\ IndexOf("p1") = 1
    /\ Len(lt_entries["sa"]) = 1

\* C39: a block is added to the block index at most once per BlockMeta
\* instance: of the sequential or concurrent put calls with one instance only
\* the first to run set_handle_stored calls add_handle, and an instance that
\* get or try_get returned is never indexed when it is put back.
C39_IndexedOncePerMeta ==
    /\ [](\A m \in MetaIds :
            /\ metas[m].added <= 1
            /\ metas[m].from_db => metas[m].added = 0
            /\ metas[m].added = 1 => metas[m].handle_stored)
    /\ [][\A m \in MetaIds :
            metas'[m].added > metas[m].added =>
                /\ metas[m].made /\ ~metas[m].handle_stored /\ metas[m].added = 0
                /\ \E p \in Putters : ploc[p].meta = m /\ ppc[p] = "cas" /\ ppc'[p] = "lock"]_vars

\* the first instance was put by both putters and indexed once; the instance
\* that get returned for its key has been put back and was not indexed
C39_Witness ==
    /\ metas[1].made /\ ~metas[1].from_db /\ metas[1].added = 1
    /\ metas[2].made /\ metas[2].from_db /\ metas[2].key = metas[1].key
    /\ ploc["p1"].meta = 2 /\ ppc["p1"] = "idle"
    /\ ploc["p2"].meta = 1 /\ ppc["p2"] = "idle"
    /\ lt_desc_db[metas[1].key.shard] # NoDesc
    /\ lt_desc_db[metas[1].key.shard][1].last_index = 1

\* the distance of the bounds of the binary search
GetWidth(st) == st.rb - st.lb
GetMid(st) == st.lb + (st.rb - st.lb) \div 2

\* C36: get_block always terminates: every call returns; a round of the
\* binary search that stays in the loop narrows the bounds or, when the
\* midpoint is the lower bound and the bounds no longer move, is followed by
\* the break; the scan looks at the prefix lengths 0..=MAX_SPLIT_DEPTH only,
\* each at most once, and stops at the first missing descriptor after one
\* has been found.
C36_GetBlockTerminates ==
    /\ <>(get_st.pc = "returned")
    /\ [](get_st.pc \in {"search", "merge"} => get_st.len \in 0..MAX_SPLIT_DEPTH)
    /\ [](get_st.len \in 0..(MAX_SPLIT_DEPTH + 1))
    /\ [][/\ get_st'.len >= get_st.len
          /\ (get_st.pc = "search" /\ get_st'.pc = "search") =>
                \/ GetWidth(get_st') < GetWidth(get_st)
                \/ /\ GetWidth(get_st') = GetWidth(get_st)
                   /\ get_st'.last_index = GetMid(get_st')
                   /\ get_st.last_index # GetMid(get_st)
          /\ (get_st.pc = "search" /\ get_st.last_index = GetMid(get_st)) =>
                get_st'.pc = "merge"
          /\ (get_st.pc = "scan" /\ get_st.found /\ DescAt(get_st.len) = NoDesc) =>
                get_st'.pc = "after"
          /\ (get_st.pc = "merge" /\ get_st'.pc = "scan") => get_st'.len = get_st.len + 1]_vars

\* a search over two entries has ended in the break: the bounds are next to
\* each other and the midpoint, the lower bound, was read in the round before
C36_Witness ==
    /\ get_st.pc = "merge"
    /\ get_st.rb > get_st.lb
    /\ get_st.rb = get_st.lb + 1
    /\ get_st.last_index = get_st.lb
    /\ get_st.left # NoBlock
    /\ DescAt(get_st.len) # NoDesc /\ DescAt(get_st.len)[1].last_index = 2

\* C37: at most one FileDescription (and one ArchiveSlice) is created per
\* PackageId, and the assertion of add_file_desc that the file map has no
\* descriptor for the id holds whenever it is evaluated, also when two blocks
\* of one package that does not exist yet are promoted concurrently.
C37_OneDescPerPackage ==
    /\ [](\A m \in Movers : mpc[m] # "panic")
    /\ [][\A m \in Movers :
            (mpc[m] = "put_desc" /\ mpc'[m] = "add_file") =>
                mloc[m].package_id \notin file_maps]_vars

\* the entries a call has copied into a slice and the loose files it has removed
EntriesCopied(m) == {c[2] : c \in CopiedBy(m)}
EntriesUnlinked(m) == {u[2] : u \in UnlinkedBy(m)}
\* the call of m was not turned away by moving-started
Moving(m) == mpc[m] # "idle" /\ m \notin history.early

\* C38: move_to_archive copies at most one proof artifact, the proof when the
\* proof flag is set and the prooflink only when the proof flag is unset and
\* the prooflink flag is set; it copies the block data only when the data flag
\* is set; the loose files it unlinks are the ones it copied, all of them when
\* it returns Ok, and no other loose file is removed, a staged prooflink
\* beside a copied proof included.
C38_CopiesAndUnlinks ==
    /\ [](\A m \in Movers :
            Moving(m) =>
                LET b == mloc[m].block
                    C == EntriesCopied(m)
                    U == EntriesUnlinked(m)
                IN /\ \A e \in C : e.block = b
                   /\ EntryId("proof", b) \in C => is_proof_inited(b)
                   /\ EntryId("prooflink", b) \in C =>
                          ~is_proof_inited(b) /\ is_prooflink_inited(b)
                   /\ EntryId("block", b) \in C => is_data_inited(b)
                   /\ U \subseteq C
                   /\ (mpc[m] = "done" /\ mloc[m].result = "ok") =>
                          /\ U = C
                          /\ is_proof_inited(b) => EntryId("proof", b) \in C
                          /\ (~is_proof_inited(b) /\ is_prooflink_inited(b)) =>
                                 EntryId("prooflink", b) \in C
                          /\ is_data_inited(b) => EntryId("block", b) \in C)
    /\ [][\A e \in EntryIds :
            (unapplied[e] # NoFile /\ unapplied'[e] = NoFile) =>
                \E m \in Movers :
                    /\ e \in EntriesCopied(m)
                    /\ e \in EntriesUnlinked(m)' \ EntriesUnlinked(m)]_vars

\* the proof, the prooflink and the data of b1 were staged; the call has
\* returned Ok, the proof and the data are in a slice and unlinked, and the
\* prooflink is still a loose file that no slice holds
C38_Witness ==
    \E m \in Movers :
        /\ mpc[m] = "done" /\ mloc[m].result = "ok" /\ mloc[m].block = "b1"
        /\ EntriesCopied(m) = {EntryId("proof", "b1"), EntryId("block", "b1")}
        /\ EntriesUnlinked(m) = EntriesCopied(m)
        /\ unapplied[EntryId("prooflink", "b1")] # NoFile
        /\ unapplied[EntryId("proof", "b1")] = NoFile
        /\ ~\E r \in slices : r.entry = EntryId("prooflink", "b1")

====
